---- MODULE Spec2Model ----
(***************************************************************************)
(* The grid interaction engine of react-awesome-table: the useTable hook   *)
(* of src/src/components/hook.ts, as a state machine.                      *)
(*                                                                         *)
(* Representation.  Strings that the engine inspects (cell values, typed   *)
(* text) are sequences of one-character strings, so "" is << >>.           *)
(* Row and column indices, the history pointer and page numbers are        *)
(* zero-based as in the source; a matrix is a sequence of rows, a row a    *)
(* sequence of cells, and At(cells, r, c) reads cells[r][c].               *)
(* The per-cell flags `selected` and `current` are written by the hook     *)
(* but never read from the stored matrix (displayItems recomputes them     *)
(* from the selection and the current cell), so cells carry no such field. *)
(***************************************************************************)
EXTENDS Integers, Sequences, FiniteSets, TLC

VARIABLES
    columns,        \* props: the column schema
    items,          \* props: the caller's record list
    readOnly,       \* props: the grid is read-only
    disableUndo,    \* props: undo/redo is disabled
    options,        \* props: settings (defaultTableOptions merged with options)
    prevItems,      \* useState: the record list seen by the last rebuild
    data,           \* useState: the live matrix
    currentPage,    \* useState
    perPage,        \* useState
    filter,         \* useState
    sort,           \* useState: the list of sort keys
    currentCell,    \* useState
    editCell,       \* useState: the edit session
    selection,      \* useState
    focus,          \* useState
    dragging,       \* useState
    undo,           \* useState: the history
    undoIndex,      \* useState: the history pointer
    mode,           \* useState: the edit mode
    timer,          \* useRef: the matrix the pending notification will carry
    timeouts,       \* the matrices of the timeouts set and neither fired nor cleared
    mounted,        \* the component that uses the hook is mounted
    notified,       \* the matrix of the last onChange call
    steps           \* the number of events handled so far

vars == << columns, items, readOnly, disableUndo, options, prevItems, data,
           currentPage, perPage, filter, sort, currentCell, editCell,
           selection, focus, dragging, undo, undoIndex, mode, timer,
           timeouts, mounted, notified, steps >>

props == << columns, items, readOnly, disableUndo, options >>

-----------------------------------------------------------------------------
(* Bounds of the model *)

\* A behaviour handles at most MaxSteps events.
MaxSteps == 4

-----------------------------------------------------------------------------
(* JavaScript's undefined, one marker per type *)

NoValue == << "undefined" >>
NoCell == [row |-> -1, column |-> -1]
NoEdit == [location |-> NoCell, value |-> NoValue]
NoData == << << [undefined |-> TRUE] >> >>
NoTimer == << << [timer |-> FALSE] >> >>
NoMessage == "undefined"
NoItem == [undefined |-> TRUE]

-----------------------------------------------------------------------------
(* Inputs *)

\* What the user types into an editor or a program passes as a value.
EditValues == { << >>, << "a" >>, << "b" >> }

Item(k, n, x) == [key |-> << "item", k >>, name |-> n, x |-> x]

\* The record lists the caller passes.
TwoItems == << Item(1, << "a" >>, << "1" >>), Item(2, << "b" >>, << "2" >>) >>

\* The record lists the caller passes: two records, the same values under
\* another key, and no record at all.
ItemLists ==
    { TwoItems,
      << Item(3, << "a" >>, << "1" >>), Item(2, << "b" >>, << "2" >>) >>,
      << >> }

\* A schema: an editable required text column and a read-only numeric one.
ColumnsNameX ==
    << [name |-> "name", readOnly |-> FALSE, hidden |-> FALSE, required |-> TRUE,
        valueType |-> "text", cellType |-> "text", defaultValue |-> << "n" >>],
       [name |-> "x", readOnly |-> TRUE, hidden |-> FALSE, required |-> FALSE,
        valueType |-> "numeric", cellType |-> "numeric", defaultValue |-> << "0" >>] >>

Digits == { "0", "1", "2", "3", "4", "5", "6", "7", "8", "9" }

-----------------------------------------------------------------------------
(* Helpers over matrices *)

Loc(r, c) == [row |-> r, column |-> c]

InMatrix(cells, r, c) ==
    /\ r >= 0 /\ r < Len(cells)
    /\ c >= 0 /\ c < Len(cells[r + 1])

At(cells, r, c) == cells[r + 1][c + 1]

SetAt(cells, r, c, cell) == [cells EXCEPT ![r + 1][c + 1] = cell]

\* util.clone: a deep copy; values have no identity here.
clone(x) == x

\* The values of a matrix, row by row.
Values(cells) ==
    IF cells = NoData THEN NoData
    ELSE [r \in 1..Len(cells) |-> [c \in 1..Len(cells[r]) |-> cells[r][c].value]]

\* util.equalsCells: the two matrices have the same shape and cell values.
equalsCells(a, b) == Values(a) = Values(b)

columnLength == Len(columns)

\* columns.find((c) => c.name === name): its index (one-based), 0 when absent.
findColumn(name) ==
    IF \E i \in 1..Len(columns) : columns[i].name = name
    THEN CHOOSE i \in 1..Len(columns) :
            /\ columns[i].name = name
            /\ \A j \in 1..(i - 1) : columns[j].name # name
    ELSE 0

\* types.getCellComponentType
getCellComponentType(column) == column.cellType

\* util.getDefaultValue for a literal default value
getDefaultValue(row, cells, defaultValue) == defaultValue

\* The row key function of the sample application.
getRowKey(item, rowIndex, cells) ==
    IF item # NoItem THEN item.key ELSE << "new_point", rowIndex >>

IsNumeric(value) == value # << >> /\ \A i \in 1..Len(value) : value[i] \in Digits

\* validate.validateCell: << valid, message >>
validateCell(column, value, location, cells) ==
    IF column.required /\ value = << >> THEN << FALSE, "validate.required" >>
    ELSE IF column.valueType = "numeric" /\ value # << >> /\ ~IsNumeric(value)
         THEN << FALSE, "validate.numeric" >>
         ELSE << TRUE, NoMessage >>

-----------------------------------------------------------------------------
(* History *)

pushUndoListKeepsRedo(u, ui, cells) ==
    IF disableUndo THEN [undo |-> u, undoIndex |-> ui]
    ELSE IF Len(u) > 0 /\ equalsCells(cells, u[ui + 1])
         THEN [undo |-> u, undoIndex |-> ui]
         ELSE [undo |-> Append(u, clone(cells)), undoIndex |-> ui + 1]

\* pushUndoList over a history u with pointer ui: the history and pointer it sets.
pushUndoListOn(u, ui, cells) ==
    IF disableUndo THEN [undo |-> u, undoIndex |-> ui]
    ELSE IF Len(u) > 0 /\ equalsCells(cells, u[ui + 1])
         THEN [undo |-> u, undoIndex |-> ui]
         ELSE LET temp == clone(cells)
                  index == ui + 1
                  history == SubSeq(clone(u), 1, index)
              IN [undo |-> Append(history, temp), undoIndex |-> index]

pushUndoList(cells) == pushUndoListOn(undo, undoIndex, cells)

-----------------------------------------------------------------------------
(* Cells *)

setCellValueIgnoreReadOnly(value, location, cells) ==
    LET cell == At(cells, location.row, location.column)
        v == validateCell(columns[findColumn(cell.entityName)], value, location, cells)
    IN [changed |-> cell.value # value,
        cells |-> SetAt(cells, location.row, location.column,
                        [cell EXCEPT !.value = value, !.invalid = ~v[1],
                                     !.invalidMessage = v[2]])]

\* setCellValue: whether the value changed, and the matrix it leaves.
setCellValue(value, location, cells) ==
    LET cell == At(cells, location.row, location.column)
        column == findColumn(cell.entityName)
    IN IF column = 0 THEN [changed |-> FALSE, cells |-> cells]
       ELSE IF readOnly \/ cell.readOnly THEN [changed |-> FALSE, cells |-> cells]
       ELSE LET v == validateCell(columns[column], value, location, cells)
            IN [changed |-> cell.value # value,
                cells |-> SetAt(cells, location.row, location.column,
                                [cell EXCEPT !.value = value, !.invalid = ~v[1],
                                             !.invalidMessage = v[2]])]

\* makeNewRow: a row of cells with the columns' default values, validated.
makeNewRow(row, cells) ==
    [index \in 1..Len(columns) |->
        LET column == columns[index]
            value == getDefaultValue(row, cells, column.defaultValue)
            v == validateCell(column, value, Loc(row, index - 1), cells)
        IN [entityName |-> column.name,
            rowKey |-> getRowKey(NoItem, row, cells),
            value |-> value,
            invalid |-> ~v[1],
            invalidMessage |-> v[2],
            readOnly |-> column.readOnly,
            cellType |-> getCellComponentType(column),
            hidden |-> column.hidden,
            editing |-> FALSE]]

\* The matrix the initialisation effect builds from the record list.
buildData(newItems) ==
    LET built == [rowIndex \in 1..Len(newItems) |->
                    [c \in 1..Len(columns) |->
                        LET column == columns[c]
                            value == newItems[rowIndex][column.name]
                            v == validateCell(column, value, Loc(rowIndex - 1, c - 1), << >>)
                            check == ~column.hidden /\ ~v[1]
                        IN [entityName |-> column.name,
                            rowKey |-> getRowKey(newItems[rowIndex], rowIndex - 1, NoData),
                            value |-> value,
                            invalid |-> check,
                            invalidMessage |-> IF check THEN v[2] ELSE NoMessage,
                            readOnly |-> (readOnly \/ column.readOnly),
                            cellType |-> getCellComponentType(column),
                            hidden |-> column.hidden,
                            editing |-> FALSE]]]
    IN IF Len(built) = 0 THEN << makeNewRow(0, built) >> ELSE built


-----------------------------------------------------------------------------
(* View projection *)

\* v.indexOf(p) >= 0
IsContained(p, v) ==
    \E k \in 0..(Len(v) - Len(p)) : SubSeq(v, k + 1, k + Len(p)) = p

\* v.indexOf(p) === 0
IsPrefix(p, v) ==
    LET found == { k \in 0..(Len(v) - Len(p)) : SubSeq(v, k + 1, k + Len(p)) = p }
        indexOf == IF found = { } THEN -1
                   ELSE CHOOSE k \in found : \A j \in found : k <= j
    IN indexOf = 0

\* filteredData: the rows that pass the filter, in matrix order.
filteredData ==
    IF data = NoData THEN << >>
    ELSE SelectSeq(data, LAMBDA row :
            \A i \in 1..Len(columns) :
                LET filterText == filter[columns[i].name]
                IN (filterText # << >> /\ \E k \in 1..Len(row) : row[k].entityName = columns[i].name)
                   => \E k \in 1..Len(row) :
                        /\ row[k].entityName = columns[i].name
                        /\ \A j \in 1..(k - 1) : row[j].entityName # columns[i].name
                        /\ IsPrefix(filterText, row[k].value))

Min(a, b) == IF a < b THEN a ELSE b
Max(a, b) == IF a > b THEN a ELSE b

\* The number of rows of displayItems: the slice of filteredData on the page.
displayedRows ==
    Max(0, Min(Len(filteredData), currentPage * perPage + perPage) - currentPage * perPage)

\* Math.ceil((rowIndex + 1) / perPage) - 1
getPageNumberFromRowIndex(rowIndex) ==
    IF rowIndex + 1 > 0
    THEN ((rowIndex + 1) + perPage - 1) \div perPage - 1
    ELSE -((-(rowIndex + 1)) \div perPage) - 1

-----------------------------------------------------------------------------
(* Selection *)

\* util.safeGetCell(cells, row, column)?.hidden
safeHidden(cells, r, c) ==
    /\ cells # NoData
    /\ InMatrix(cells, r, c)
    /\ At(cells, r, c).hidden

RECURSIVE SeqOfRange(_, _, _, _, _)
\* The non-hidden locations of rows r..r2, columns c1..c2, in row-major order,
\* starting at (r, c).
SeqOfRange(cells, r, c, r2, c1c2) ==
    IF r > r2 THEN << >>
    ELSE IF c > c1c2[2] THEN SeqOfRange(cells, r + 1, c1c2[1], r2, c1c2)
    ELSE (IF InMatrix(cells, r, c) /\ ~At(cells, r, c).hidden THEN << Loc(r, c) >> ELSE << >>)
         \o SeqOfRange(cells, r, c + 1, r2, c1c2)

\* util.selectRange(cells, start, end): the non-hidden cell locations inside the
\* normalised rectangle.
selectRange(cells, start, end) ==
    SeqOfRange(cells, Min(start.row, end.row), Min(start.column, end.column),
               Max(start.row, end.row),
               << Min(start.column, end.column), Max(start.column, end.column) >>)

-----------------------------------------------------------------------------
(* The state a handler leaves: its setState calls applied to the state it read *)

Cur ==
    [data |-> data, currentPage |-> currentPage, currentCell |-> currentCell,
     editCell |-> editCell, selection |-> selection, focus |-> focus,
     undo |-> undo, undoIndex |-> undoIndex, mode |-> mode, timer |-> timer]

\* clearTimeout(timer.current): timer.current is the timeout set last, the
\* last of the pending ones unless it has fired.
clearTimeout(pending) ==
    IF timer # NoTimer /\ pending # << >>
    THEN SubSeq(pending, 1, Len(pending) - 1)
    ELSE pending

handleChangeStacks(cells) == Append(timeouts, cells)

\* handleChange: the timeouts pending after it.
handleChange(cells) == Append(clearTimeout(timeouts), cells)

Upd(s) ==
    /\ timeouts' = IF s.timer = timer THEN timeouts ELSE handleChange(s.timer)
    /\ data' = s.data
    /\ currentPage' = s.currentPage
    /\ currentCell' = s.currentCell
    /\ editCell' = s.editCell
    /\ selection' = s.selection
    /\ focus' = s.focus
    /\ undo' = s.undo
    /\ undoIndex' = s.undoIndex
    /\ mode' = s.mode
    /\ timer' = s.timer

\* One more event is handled.
Step == mounted /\ steps < MaxSteps /\ steps' = steps + 1

-----------------------------------------------------------------------------
(* Edit session *)

\* startEditing: no-op on a read-only grid or cell.
startEditing(location, defaultValue, inputMode) ==
    IF readOnly \/ At(data, location.row, location.column).readOnly THEN Cur
    ELSE LET cell == At(data, location.row, location.column)
             value == IF cell.cellType = "text" /\ defaultValue # NoValue
                      THEN defaultValue ELSE cell.value
         IN [Cur EXCEPT
                !.data = SetAt(clone(data), location.row, location.column,
                               [cell EXCEPT !.editing = TRUE]),
                !.editCell = [location |-> location, value |-> value],
                !.mode = inputMode]

\* endEditing, the matrix it returns (it also clears the session and the mode).
endEditing(cells) ==
    IF editCell # NoEdit
    THEN SetAt(cells, editCell.location.row, editCell.location.column,
               [At(cells, editCell.location.row, editCell.location.column)
                    EXCEPT !.editing = FALSE])
    ELSE cells

commitEditingAlwaysNotifies(cells, optionValue) ==
    LET val == IF optionValue # NoValue THEN optionValue ELSE editCell.value
        result(d, h) ==
            [cells |-> d, changed |-> TRUE, committed |-> TRUE,
             undo |-> h.undo, undoIndex |-> h.undoIndex]
        ended(d) == result(d, pushUndoList(d))
    IN ended(endEditing(setCellValue(val, editCell.location, cells).cells))

\* commitEditing: the matrix, whether the value changed, and the history.
commitEditing(cells, optionValue) ==
    LET val == IF optionValue # NoValue THEN optionValue ELSE editCell.value
        result(changed, d, h) ==
            [cells |-> d, changed |-> changed, committed |-> TRUE,
             undo |-> h.undo, undoIndex |-> h.undoIndex]
        ended(changed, d) ==
            result(changed, d, IF changed THEN pushUndoList(d)
                               ELSE [undo |-> undo, undoIndex |-> undoIndex])
        set(r) == ended(r.changed, endEditing(r.cells))
    IN set(setCellValue(val, editCell.location, cells))

\* The edit session's location indexes a cell of the matrix (else the handler throws).
EditLocationOk ==
    editCell # NoEdit =>
        /\ data # NoData
        /\ InMatrix(data, editCell.location.row, editCell.location.column)


-----------------------------------------------------------------------------
(* Navigation *)

\* One pass of the loop, taken once whatever cell it lands on.
navigateStepOnce(cur, moveRows, moveColumns, cells, fuel) ==
    LET r1 == cur.row + moveRows
        c1 == cur.column + moveColumns
        edge == options.navigateCellFromRowEdge
    IN IF c1 < 0
       THEN IF edge = "prevOrNextRow"
            THEN [ok |-> TRUE, row |-> r1 - 1, column |-> columnLength - 1]
            ELSE [ok |-> edge = "loop", row |-> r1, column |-> columnLength - 1]
       ELSE IF c1 >= columnLength
            THEN IF edge = "prevOrNextRow"
                 THEN [ok |-> TRUE, row |-> r1 + 1, column |-> 0]
                 ELSE [ok |-> edge = "loop", row |-> r1, column |-> 0]
            ELSE [ok |-> TRUE, row |-> r1, column |-> c1]

RECURSIVE navigateStep(_, _, _, _, _)
\* The do-while loop of navigateCursor: [ok, row, column]; ok is FALSE when
\* the move is refused at a row edge.
navigateStep(cur, moveRows, moveColumns, cells, fuel) ==
    LET r1 == cur.row + moveRows
        c1 == cur.column + moveColumns
        edge == options.navigateCellFromRowEdge
        a == IF c1 < 0
             THEN IF edge = "prevOrNextRow"
                  THEN [ok |-> TRUE, row |-> r1 - 1, column |-> columnLength - 1]
                  ELSE IF edge = "loop"
                       THEN [ok |-> TRUE, row |-> r1, column |-> columnLength - 1]
                       ELSE [ok |-> FALSE, row |-> r1, column |-> c1]
             ELSE [ok |-> TRUE, row |-> r1, column |-> c1]
        b == IF a.ok /\ a.column >= columnLength
             THEN IF edge = "prevOrNextRow"
                  THEN [ok |-> TRUE, row |-> a.row + 1, column |-> 0]
                  ELSE IF edge = "loop"
                       THEN [ok |-> TRUE, row |-> a.row, column |-> 0]
                       ELSE [ok |-> FALSE, row |-> a.row, column |-> a.column]
             ELSE a
    IN IF b.ok /\ fuel > 0 /\ safeHidden(cells, b.row, b.column)
       THEN navigateStep(b, moveRows, moveColumns, cells, fuel - 1)
       ELSE b

navigateCursorInsertsOnAnyKey(moveRows, moveColumns, cells, pressedEnter) ==
    IF currentCell = NoCell
    THEN [cells |-> NoData, moved |-> FALSE, current |-> NoCell, inserted |-> FALSE]
    ELSE LET n == navigateStep(currentCell, moveRows, moveColumns, cells,
                               (Len(cells) + 2) * (columnLength + 1))
             insert == /\ n.ok
                       /\ n.row >= Len(data)
                       /\ options.pressEnterOnLastRow = "insert"
             after == IF insert THEN Append(cells, makeNewRow(n.row, cells)) ELSE cells
             refused == \/ ~n.ok
                        \/ (n.row >= Len(data) /\ ~insert)
                        \/ n.row < 0
         IN [cells |-> after, moved |-> ~refused,
             current |-> Loc(n.row, n.column), inserted |-> insert]

\* navigateCursor: the matrix it returns (NoData when there is no current cell),
\* whether the cursor moved, and where to.
navigateCursor(moveRows, moveColumns, cells, pressedEnter) ==
    IF currentCell = NoCell
    THEN [cells |-> NoData, moved |-> FALSE, current |-> NoCell, inserted |-> FALSE]
    ELSE LET n == navigateStep(currentCell, moveRows, moveColumns, cells,
                               (Len(cells) + 2) * (columnLength + 1))
             insert == /\ n.ok
                       /\ n.row >= Len(data)
                       /\ options.pressEnterOnLastRow = "insert"
                       /\ pressedEnter
             after == IF insert THEN Append(cells, makeNewRow(n.row, cells)) ELSE cells
             refused == \/ ~n.ok
                        \/ (n.row >= Len(data) /\ ~insert)
                        \/ n.row < 0
         IN [cells |-> after, moved |-> ~refused,
             current |-> Loc(n.row, n.column), inserted |-> insert]

\* beforeKeyDown: the matrix it returns (NoData while a dropdown is open), and
\* what commitEditing did.
beforeKeyDown(cells) ==
    IF editCell # NoEdit
    THEN LET cell == At(cells, editCell.location.row, editCell.location.column)
         IN IF cell.cellType = "select" /\ cell.editing
            THEN [cells |-> NoData, changed |-> FALSE, committed |-> FALSE,
                  undo |-> undo, undoIndex |-> undoIndex]
            ELSE commitEditing(cells, NoValue)
    ELSE [cells |-> cells, changed |-> FALSE, committed |-> FALSE,
          undo |-> undo, undoIndex |-> undoIndex]

\* The state beforeKeyDown followed by navigateCursor leaves.  The matrix
\* handed to handleChange is the object navigateCursor goes on to change.
keyDownMove(moveRows, moveColumns, pressedEnter, cells0) ==
    LET moved(b, n) ==
            [Cur EXCEPT
                !.data = n.cells,
                !.editCell = IF b.committed THEN NoEdit ELSE editCell,
                !.mode = IF b.committed THEN "normal" ELSE mode,
                !.undo = b.undo,
                !.undoIndex = b.undoIndex,
                !.timer = IF b.changed THEN n.cells ELSE timer,
                !.currentPage = IF n.moved THEN getPageNumberFromRowIndex(n.current.row)
                                ELSE currentPage,
                !.selection = IF n.moved THEN << n.current >> ELSE selection,
                !.currentCell = IF n.moved THEN n.current ELSE currentCell]
        navigate(b) == moved(b, navigateCursor(moveRows, moveColumns, b.cells, pressedEnter))
    IN navigate(beforeKeyDown(cells0))

\* beforeKeyDown alone: the key matches no case of the switch.
keyDownStay(cells0) ==
    LET stayed(b) ==
            [Cur EXCEPT
                !.data = b.cells,
                !.editCell = IF b.committed THEN NoEdit ELSE editCell,
                !.mode = IF b.committed THEN "normal" ELSE mode,
                !.undo = b.undo,
                !.undoIndex = b.undoIndex,
                !.timer = IF b.changed THEN b.cells ELSE timer]
    IN stayed(beforeKeyDown(cells0))

\* keyDownArrow
keyDownArrow(key) ==
    LET cells == clone(IF data = NoData THEN << >> ELSE data)
    IN CASE key = "left" -> keyDownMove(0, -1, FALSE, cells)
         [] key = "right" -> keyDownMove(0, 1, FALSE, cells)
         [] key = "up" -> keyDownMove(-1, 0, FALSE, cells)
         [] key = "down" -> keyDownMove(1, 0, FALSE, cells)
         [] OTHER -> keyDownStay(cells)

\* keyDownArrow throws: the matrix is undefined and there is a current cell
\* (data.length), or the edit session's location is out of the matrix.
keyDownArrowOk ==
    /\ EditLocationOk
    /\ data = NoData => currentCell = NoCell

\* keyDownTabEnter
keyDownTabEnter(key) ==
    CASE key = "shift+tab" -> keyDownMove(0, -1, FALSE, clone(data))
      [] key = "tab" -> keyDownMove(0, 1, FALSE, clone(data))
      [] key = "shift+enter" -> keyDownMove(-1, 0, FALSE, clone(data))
      [] key = "enter" -> keyDownMove(1, 0, TRUE, clone(data))
      [] OTHER -> keyDownStay(clone(data))

keyDownTabEnterOk == data # NoData /\ EditLocationOk

\* keyDownTabEnter throws on Enter when beforeKeyDown returned undefined (a
\* dropdown is open) and navigateCursor goes on to cells.push(row).
keyDownTabEnterThrows(key) ==
    /\ key = "enter"
    /\ beforeKeyDown(clone(data)).cells = NoData
    /\ navigateCursor(1, 0, NoData, TRUE).inserted


-----------------------------------------------------------------------------
(* Range expansion *)

SelRows == { selection[i].row : i \in 1..Len(selection) }
SelColumns == { selection[i].column : i \in 1..Len(selection) }
MinOf(S) == CHOOSE x \in S : \A y \in S : x <= y
MaxOf(S) == CHOOSE x \in S : \A y \in S : x >= y

\* util.convertRange(selection): the bounding range of the selection.
convertRange ==
    [start |-> Loc(MinOf(SelRows), MinOf(SelColumns)),
     end |-> Loc(MaxOf(SelRows), MaxOf(SelColumns))]

RECURSIVE stepWhileHidden(_, _, _, _, _)
\* do { column += delta } while (cells[row][probe]?.hidden), where the probed
\* column is the moving one (probeMoves) or stays fixed.
stepWhileHidden(cells, row, column, delta, probe) ==
    LET next == column + delta
        probed == IF probe.moves THEN next ELSE probe.column
    IN IF /\ InMatrix(cells, row, probed)
          /\ At(cells, row, probed).hidden
          /\ next >= -1 /\ next <= columnLength
       THEN stepWhileHidden(cells, row, next, delta, probe)
       ELSE next

\* expandSelection: [ok, selection]
expandSelection(direction, cells) ==
    IF selection = << >> THEN [ok |-> FALSE, selection |-> selection]
    ELSE LET range == convertRange
         IN CASE direction = "up" ->
                    LET r == range.start.row - 1
                    IN IF r < 0 \/ getPageNumberFromRowIndex(r) # currentPage
                       THEN [ok |-> FALSE, selection |-> selection]
                       ELSE [ok |-> TRUE,
                             selection |-> selectRange(cells, Loc(r, range.start.column), range.end)]
              [] direction = "down" ->
                    LET r == range.end.row + 1
                    IN IF r >= Len(cells) \/ getPageNumberFromRowIndex(r) # currentPage
                       THEN [ok |-> FALSE, selection |-> selection]
                       ELSE [ok |-> TRUE,
                             selection |-> selectRange(cells, range.start, Loc(r, range.end.column))]
              [] direction = "left" ->
                    LET c == stepWhileHidden(cells, range.start.row, range.start.column, -1,
                                             [moves |-> TRUE, column |-> 0])
                    IN IF c < 0
                       THEN [ok |-> FALSE, selection |-> selection]
                       ELSE [ok |-> TRUE,
                             selection |-> selectRange(cells, Loc(range.start.row, c), range.end)]
              [] direction = "right" ->
                    LET c == stepWhileHidden(cells, range.start.row, range.end.column, 1,
                                             [moves |-> FALSE, column |-> range.start.column])
                    IN IF c >= columnLength
                       THEN [ok |-> FALSE, selection |-> selection]
                       ELSE [ok |-> TRUE,
                             selection |-> selectRange(cells, range.start, Loc(range.end.row, c))]

\* keyDownShiftArrow: the edit is committed, and the matrix and the selection
\* are stored only when the expansion succeeds.
keyDownShiftArrow(key) ==
    LET direction == CASE key = "shift+left" -> "left"
                       [] key = "shift+right" -> "right"
                       [] key = "shift+up" -> "up"
                       [] key = "shift+down" -> "down"
        expanded(b, e) ==
            [Cur EXCEPT
                !.data = IF e.ok THEN b.cells ELSE data,
                !.selection = IF e.ok THEN e.selection ELSE selection,
                !.editCell = IF b.committed THEN NoEdit ELSE editCell,
                !.mode = IF b.committed THEN "normal" ELSE mode,
                !.undo = b.undo,
                !.undoIndex = b.undoIndex,
                !.timer = IF b.changed THEN b.cells ELSE timer]
        expand(b) == expanded(b, expandSelection(direction, b.cells))
    IN expand(beforeKeyDown(clone(data)))

\* keyDownShiftArrow throws when the matrix is undefined, the session's location
\* is out of the matrix, or the selection's first row is.
keyDownShiftArrowOk ==
    /\ data # NoData
    /\ EditLocationOk
    /\ beforeKeyDown(clone(data)).cells # NoData
    /\ selection # << >> => (MinOf(SelRows) >= 0 /\ MinOf(SelRows) < Len(data))

-----------------------------------------------------------------------------
(* Undo / redo *)

restoreHistoryFloorMinusOne(s, command) ==
    LET index == IF command = "undo" THEN Max(-1, s.undoIndex - 1)
                 ELSE IF s.undoIndex = Len(s.undo) - 1 THEN s.undoIndex
                      ELSE s.undoIndex + 1
    IN IF index # s.undoIndex
       THEN [s EXCEPT !.data = IF index > -1 THEN clone(s.undo[index + 1]) ELSE s.data,
                      !.undoIndex = index,
                      !.timer = IF index > -1 THEN clone(s.undo[index + 1]) ELSE s.timer]
       ELSE s

\* restoreHistory, run by a render whose state is s: the state it leaves.
restoreHistoryAt(s, command) ==
    LET index == IF command = "undo" THEN Max(-1, s.undoIndex - 1)
                 ELSE IF s.undoIndex = Len(s.undo) - 1 THEN s.undoIndex
                      ELSE s.undoIndex + 1
    IN IF index # s.undoIndex /\ index > -1
       THEN LET history == clone(s.undo[index + 1])
            IN [s EXCEPT !.data = history, !.undoIndex = index, !.timer = history]
       ELSE s

\* restoreHistory
restoreHistory(command) == restoreHistoryAt(Cur, command)

-----------------------------------------------------------------------------
(* Initial state: the hook after its first render and initialisation effect *)

NoFilter == [n \in { "name", "h", "x", "y" } |-> << >>]

InitState(cols, its, ro, du, opts, rpp) ==
    /\ columns = cols
    /\ items = its
    /\ readOnly = ro
    /\ disableUndo = du
    /\ options = opts
    /\ prevItems = its
    /\ data = buildData(its)
    /\ currentPage = 0
    /\ perPage = rpp
    /\ filter = NoFilter
    /\ sort = << >>
    /\ currentCell = NoCell
    /\ editCell = NoEdit
    /\ selection = << >>
    /\ focus = FALSE
    /\ dragging = FALSE
    /\ undo = pushUndoListOn(<< >>, -1, data).undo
    /\ undoIndex = pushUndoListOn(<< >>, -1, data).undoIndex
    /\ mode = "normal"
    /\ timer = NoTimer
    /\ timeouts = << >>
    /\ mounted = TRUE
    /\ notified = NoData
    /\ steps = 0

OptionsInsert ==
    [pressEnterOnLastRow |-> "insert", navigateCellFromRowEdge |-> "none",
     sortable |-> TRUE, filterable |-> TRUE]

\* The grid is writable with or without undo, or read-only.
Init ==
    \E ro \in BOOLEAN, du \in BOOLEAN :
        /\ ~(ro /\ du)
        /\ InitState(ColumnsNameX, TwoItems, ro, du, OptionsInsert, 2)

-----------------------------------------------------------------------------
(* Actions: one per event handler or exposed operation *)

\* The caller passes another record list: the initialisation effect.
Rebuild(newItems) ==
    /\ newItems # items
    /\ items' = newItems
    /\ IF prevItems # newItems
       THEN LET built(newData, h) ==
                    /\ data' = newData
                    /\ prevItems' = newItems
                    /\ undo' = h.undo
                    /\ undoIndex' = h.undoIndex
                push(newData) == built(newData, pushUndoList(newData))
            IN push(buildData(newItems))
       ELSE UNCHANGED << data, prevItems, undo, undoIndex >>
    /\ Step
    /\ UNCHANGED << columns, readOnly, disableUndo, options, currentPage, perPage,
                    filter, sort, currentCell, editCell, selection, focus, dragging,
                    mode, timer, timeouts, mounted, notified >>

\* A pending timeout fires: executeChange(cells) calls onChange.
TimerFire ==
    /\ \E i \in 1..Len(timeouts) :
            /\ notified' = timeouts[i]
            /\ timeouts' = SubSeq(timeouts, 1, i - 1) \o SubSeq(timeouts, i + 1, Len(timeouts))
            /\ timer' = IF i = Len(timeouts) THEN NoTimer ELSE timer
    /\ steps < MaxSteps
    /\ steps' = steps + 1
    /\ UNCHANGED << props, prevItems, data, currentPage, perPage, filter, sort,
                    currentCell, editCell, selection, focus, dragging, undo,
                    undoIndex, mode, mounted >>

\* What a handler that changes only hook state through Upd leaves alone.
Frame == UNCHANGED << props, prevItems, perPage, filter, sort, dragging, mounted, notified >>

\* A handler that ran to its end and left state s.
Handler(s) ==
    /\ Step
    /\ Upd(s)
    /\ Frame

\* onCellClick
onCellClick(rowIndex, colIndex, shiftKey) ==
    LET location == Loc(rowIndex + currentPage * perPage, colIndex)
    IN IF currentCell # NoCell /\ currentCell = location THEN Cur
       ELSE LET clicked(c) ==
                    [Cur EXCEPT
                        !.data = c.cells,
                        !.editCell = NoEdit,
                        !.mode = IF c.committed THEN "normal" ELSE mode,
                        !.undo = c.undo,
                        !.undoIndex = c.undoIndex,
                        !.timer = IF c.changed THEN c.cells ELSE timer,
                        !.selection = IF currentCell # NoCell /\ shiftKey
                                      THEN selectRange(c.cells, currentCell, location)
                                      ELSE << location >>,
                        !.currentCell = IF currentCell # NoCell /\ shiftKey
                                        THEN currentCell ELSE location]
            IN clicked(IF editCell # NoEdit THEN commitEditing(clone(data), NoValue)
                       ELSE [cells |-> clone(data), changed |-> FALSE, committed |-> FALSE,
                             undo |-> undo, undoIndex |-> undoIndex])

\* Primary-button mouse-down on a displayed cell: the document listener sets
\* the focus, the cell's onMouseDown runs onCellClick and starts a drag.
CellMouseDown(rowIndex, colIndex, shiftKey) ==
    /\ data # NoData
    /\ rowIndex < displayedRows
    /\ EditLocationOk
    /\ Step
    /\ Upd([onCellClick(rowIndex, colIndex, shiftKey) EXCEPT !.focus = TRUE])
    /\ dragging' = TRUE
    /\ UNCHANGED << props, prevItems, perPage, filter, sort, mounted, notified >>

\* Mouse-up on a cell of the grid, or outside every table cell while the
\* table body is mounted: the drag ends.
MouseUp ==
    /\ dragging
    /\ dragging' = FALSE
    /\ Step
    /\ UNCHANGED << props, prevItems, data, currentPage, perPage, filter, sort,
                    currentCell, editCell, selection, focus, undo, undoIndex,
                    mode, timer, timeouts, mounted, notified >>

\* Mouse-down outside the cells, or the window loses the focus.
FocusOut ==
    /\ focus
    /\ Handler([Cur EXCEPT !.focus = FALSE])


RECURSIVE setEach(_, _, _, _)
\* selection.forEach((location) => setCellValue(value, location, cells)) from
\* the i-th location on: [changed, cells]
setEach(value, locations, i, acc) ==
    IF i > Len(locations) THEN acc
    ELSE LET r == setCellValue(value, locations[i], acc.cells)
         IN setEach(value, locations, i + 1,
                    [changed |-> acc.changed \/ r.changed, cells |-> r.cells])

\* Every location of the selection indexes a cell (else setCellValue throws).
SelectionOk ==
    /\ data # NoData
    /\ \A i \in 1..Len(selection) : InMatrix(data, selection[i].row, selection[i].column)

\* clearSelectedCells and editMultipleCells: the selection set to one value.
setSelectedCells(value) ==
    LET pushed(cells, h) ==
            [Cur EXCEPT !.data = cells, !.timer = cells,
                        !.undo = h.undo, !.undoIndex = h.undoIndex]
        set(r) == IF r.changed THEN pushed(r.cells, pushUndoList(r.cells)) ELSE Cur
    IN set(setEach(value, selection, 1, [changed |-> FALSE, cells |-> clone(data)]))

clearSelectedCellsOpensEditor == startEditing(currentCell, << >>, "input")

clearSelectedCells == setSelectedCells(<< >>)

editMultipleCellsClears == setSelectedCells(<< >>)

editMultipleCells == setSelectedCells(editCell.value)

cancelEditingApplies ==
    [Cur EXCEPT !.data = endEditing(setCellValue(editCell.value, editCell.location,
                                                 clone(data)).cells),
                !.editCell = NoEdit,
                !.mode = IF editCell # NoEdit THEN "normal" ELSE mode]

\* cancelEditing
cancelEditing ==
    [Cur EXCEPT !.data = endEditing(clone(data)),
                !.editCell = NoEdit,
                !.mode = IF editCell # NoEdit THEN "normal" ELSE mode]

\* commit(value), the editor's commit action
commit(value) ==
    LET committed(c) ==
            [Cur EXCEPT !.data = c.cells, !.editCell = NoEdit, !.mode = "normal",
                        !.undo = c.undo, !.undoIndex = c.undoIndex,
                        !.timer = IF c.changed THEN c.cells ELSE timer]
    IN committed(commitEditing(clone(data), value))

\* The current cell indexes a cell of the matrix (else reading it throws).
CurrentCellOk ==
    currentCell # NoCell =>
        /\ data # NoData
        /\ InMatrix(data, currentCell.row, currentCell.column)

\* handleAnyKeyDown: Enter, Delete/Backspace or a printable key in normal mode.
AnyKeyDown(key) ==
    /\ focus
    /\ editCell = NoEdit
    /\ currentCell # NoCell
    /\ CurrentCellOk
    /\ IF key = "Enter"
       THEN Handler(startEditing(currentCell,
                                 At(data, currentCell.row, currentCell.column).value,
                                 "input"))
       ELSE IF key = "Delete"
       THEN IF Len(selection) > 1
            THEN /\ SelectionOk
                 /\ Handler(clearSelectedCells)
            ELSE Handler(startEditing(currentCell, << >>, "input"))
       ELSE Handler(startEditing(currentCell, << key >>, "input"))

\* handleF2KeyDown
F2KeyDown ==
    /\ focus
    /\ editCell = NoEdit
    /\ currentCell # NoCell
    /\ CurrentCellOk
    /\ Handler(startEditing(currentCell, NoValue, "edit"))

\* onCellDoubleClick, on the cell the preceding mouse-down made current.
CellDoubleClick ==
    /\ currentCell # NoCell
    /\ CurrentCellOk
    /\ getPageNumberFromRowIndex(currentCell.row) = currentPage
    /\ Handler(startEditing(currentCell, NoValue, "edit"))

\* The editor's onChange: the user types.
EditorChange(value) ==
    /\ editCell # NoEdit
    /\ value # editCell.value
    /\ Handler([Cur EXCEPT !.editCell = [editCell EXCEPT !.value = value]])

\* handleEditorKeyDown's switch: the hotkey name of the event's key.
editorKeyName(key) ==
    CASE key = "Tab" -> "tab"
      [] key = "Enter" -> "enter"
      [] key = "ArrowLeft" -> "left"
      [] key = "ArrowRight" -> "right"
      [] key = "ArrowUp" -> "up"
      [] key = "ArrowDown" -> "down"
      [] OTHER -> ""

editorIsArrowKeyInAnyMode(key) ==
    key \in { "ArrowLeft", "ArrowRight", "ArrowUp", "ArrowDown" }

\* isArrowKey: arrow keys are looked at in mode input only.
editorIsArrowKey(key) ==
    mode = "input" /\ key \in { "ArrowLeft", "ArrowRight", "ArrowUp", "ArrowDown" }

\* action: "commit", "cancel" or "none" (undefined).
editorAction(key) ==
    IF key \in { "Tab", "Enter" } \/ editorIsArrowKey(key) THEN "commit"
    ELSE IF key = "Escape" THEN "cancel" ELSE "none"

\* keys.join('+')
editorJoinedKey(key, modifier) ==
    IF modifier = "" THEN editorKeyName(key)
    ELSE IF modifier = "shift" THEN "shift+" \o editorKeyName(key)
    ELSE IF modifier = "ctrl" THEN "ctrl+" \o editorKeyName(key)
    ELSE "command+" \o editorKeyName(key)

\* newMode
editorNewMode(key) ==
    IF mode = "input" /\ key = "F2" THEN "edit"
    ELSE IF mode = "edit" /\ key = "F2" THEN "input"
    ELSE IF mode = "select" THEN "normal"
    ELSE mode

\* handleEditorKeyDown runs to its end (nothing it calls throws).
handleEditorKeyDownOk(key, modifier) ==
    IF editorAction(key) = "commit"
    THEN IF editorIsArrowKey(key)
         THEN IF modifier = "shift" THEN keyDownShiftArrowOk ELSE keyDownArrowOk
         ELSE IF editorJoinedKey(key, modifier) \in { "ctrl+enter", "command+enter" }
              THEN SelectionOk
              ELSE /\ keyDownTabEnterOk
                   /\ ~keyDownTabEnterThrows(editorJoinedKey(key, modifier))
    ELSE IF editorAction(key) = "cancel" THEN EditLocationOk
    ELSE TRUE

\* handleEditorKeyDown: key is the event's key, modifier the one modifier the
\* handler looks at ("shift", "ctrl", "command" or ""); the state it leaves.
handleEditorKeyDown(key, modifier) ==
    LET final(s) == IF mode # editorNewMode(key)
                    THEN [s EXCEPT !.mode = editorNewMode(key)] ELSE s
    IN IF editorAction(key) = "commit"
       THEN IF editorIsArrowKey(key)
            THEN IF modifier = "shift"
                 THEN final(keyDownShiftArrow(editorJoinedKey(key, modifier)))
                 ELSE final(keyDownArrow(editorJoinedKey(key, modifier)))
            ELSE IF editorJoinedKey(key, modifier) \in { "ctrl+enter", "command+enter" }
                 THEN final(editMultipleCells)
                 ELSE final(keyDownTabEnter(editorJoinedKey(key, modifier)))
       ELSE IF editorAction(key) = "cancel"
            THEN final(cancelEditing)
            ELSE final(Cur)

\* A key pressed in the open editor; a key the handler ignores is no event.
EditorKeyDown(key, modifier) ==
    /\ editCell # NoEdit
    /\ handleEditorKeyDownOk(key, modifier)
    /\ editorAction(key) = "none" => mode # editorNewMode(key)
    /\ Handler(handleEditorKeyDown(key, modifier))

\* The editor's commit action (a value picked in the editor).
EditorCommit(value) ==
    /\ editCell # NoEdit
    /\ EditLocationOk
    /\ Handler(commit(value))

\* The editor's cancel action.
EditorCancel ==
    /\ editCell # NoEdit
    /\ EditLocationOk
    /\ Handler(cancelEditing)

\* handleArrowKeyDown
HotkeyArrow(key) ==
    /\ focus
    /\ editCell = NoEdit
    /\ keyDownArrowOk
    /\ Handler(keyDownArrow(key))

\* handleShiftArrowKeyDown
HotkeyShiftArrow(key) ==
    /\ focus
    /\ editCell = NoEdit
    /\ keyDownShiftArrowOk
    /\ Handler(keyDownShiftArrow(key))

\* handleTabKeyDown
HotkeyTabEnter(key) ==
    /\ focus
    /\ keyDownTabEnterOk
    /\ ~keyDownTabEnterThrows(key)
    /\ Handler(keyDownTabEnter(key))

\* handleUndoRedo
UndoRedo(command) ==
    /\ focus
    /\ ~readOnly
    /\ ~disableUndo
    /\ editCell = NoEdit
    /\ Handler(restoreHistory(command))

-----------------------------------------------------------------------------
(* Clipboard paste *)

\* Clipboard texts: one cell, one row of two cells, two lines ending in CR LF.
RawTexts ==
    { << "b" >>,
      << "b", "\t", "5" >>,
      << "b", "\r", "\n", "a" >> }

\* The index of the first ch in text, 0 when there is none.
indexOf(text, ch) ==
    IF \E i \in 1..Len(text) : text[i] = ch
    THEN CHOOSE i \in 1..Len(text) : text[i] = ch /\ \A j \in 1..(i - 1) : text[j] # ch
    ELSE 0

RECURSIVE split(_, _)
\* String.prototype.split(separator)
split(text, separator) ==
    LET i == indexOf(text, separator)
    IN IF i = 0 THEN << text >>
       ELSE << SubSeq(text, 1, i - 1) >> \o split(SubSeq(text, i + 1, Len(text)), separator)

\* String.prototype.replace(ch, ''): the first occurrence is removed.
removeFirst(text, ch) ==
    LET i == indexOf(text, ch)
    IN IF i = 0 THEN text ELSE SubSeq(text, 1, i - 1) \o SubSeq(text, i + 1, Len(text))

\* rawData.split('\n').map((value) => value.replace('\r', '').split('\t'))
parsePasteItems(rawData) ==
    LET lines == split(rawData, "\n")
    IN [i \in 1..Len(lines) |-> split(removeFirst(lines[i], "\r"), "\t")]

RECURSIVE skipHidden(_, _, _)
\* while (cells[row][column]?.hidden) column += 1
skipHidden(cells, row, column) ==
    IF InMatrix(cells, row, column) /\ At(cells, row, column).hidden
    THEN skipHidden(cells, row, column + 1)
    ELSE column

RECURSIVE pasteCells(_, _, _, _, _)
\* The inner loop of pasteFromItems and pasteToSelectedRows: the values of one
\* pasted row from the j-th on, set from column start on; acc is
\* [changed, cells, selection].
pasteCells(values, j, row, start, acc) ==
    IF j > Len(values) THEN acc
    ELSE LET column == skipHidden(acc.cells, row, start + j - 1)
             set(r) == pasteCells(values, j + 1, row, start,
                                  [changed |-> acc.changed \/ r.changed,
                                   cells |-> r.cells,
                                   selection |-> Append(acc.selection, Loc(row, column))])
         IN IF column >= Len(acc.cells[row + 1]) THEN acc
            ELSE set(setCellValue(values[j], Loc(row, column), acc.cells))

RECURSIVE pasteRows(_, _, _, _)
\* pasteFromItems from the i-th pasted row on: a row past the end is appended.
pasteRows(pasteItems, i, current, acc) ==
    IF i > Len(pasteItems) THEN acc
    ELSE LET row == current.row + i - 1
             grown == IF row >= Len(acc.cells)
                      THEN [acc EXCEPT !.cells = Append(acc.cells, makeNewRow(row, acc.cells)),
                                       !.changed = TRUE]
                      ELSE acc
         IN pasteRows(pasteItems, i + 1, current,
                      pasteCells(pasteItems[i], 1, row, current.column, grown))

pasteFromItems(pasteItems, cells, current) ==
    pasteRows(pasteItems, 1, current, [changed |-> FALSE, cells |-> cells, selection |-> << >>])

\* pasteToSelection: [changed, cells, selection]
pasteToSelection(pasteItem, cells, selectedCells) ==
    LET done(r) == [changed |-> r.changed, cells |-> r.cells, selection |-> << >>]
    IN done(setEach(pasteItem, selectedCells, 1, [changed |-> FALSE, cells |-> cells]))

RECURSIVE sortedRows(_)
\* [...selectedRows].sort(): ascending for row numbers below ten
sortedRows(S) ==
    IF S = { } THEN << >> ELSE << MinOf(S) >> \o sortedRows(S \ { MinOf(S) })

RECURSIVE pasteEachRow(_, _, _, _, _)
pasteEachRow(pasteDataRow, rows, i, startColumn, acc) ==
    IF i > Len(rows) THEN acc
    ELSE pasteEachRow(pasteDataRow, rows, i + 1, startColumn,
                      pasteCells(pasteDataRow, 1, rows[i], startColumn, acc))

pasteToSelectedRows(pasteDataRow, cells, selectedCells) ==
    IF selectedCells = << >>
    THEN [changed |-> FALSE, cells |-> cells, selection |-> << >>]
    ELSE pasteEachRow(pasteDataRow, sortedRows(SelRows), 1, MinOf(SelColumns),
                      [changed |-> FALSE, cells |-> cells, selection |-> << >>])

\* pasteData
pasteData(rawData) ==
    IF currentCell = NoCell \/ rawData = << >> THEN Cur
    ELSE LET pasteItems == parsePasteItems(rawData)
             single == Len(pasteItems) = 1 /\ Len(pasteItems[1]) = 1
             pushed(r, h) ==
                [Cur EXCEPT
                    !.data = r.cells,
                    !.selection = IF ~single /\ r.changed /\ Len(r.selection) > 0
                                  THEN r.selection ELSE selection,
                    !.timer = IF r.changed THEN r.cells ELSE timer,
                    !.undo = h.undo,
                    !.undoIndex = h.undoIndex]
             pasted(r) == pushed(r, IF r.changed THEN pushUndoList(r.cells)
                                    ELSE [undo |-> undo, undoIndex |-> undoIndex])
         IN pasted(IF single
                   THEN pasteToSelection(pasteItems[1][1], data, selection)
                   ELSE IF Len(pasteItems) = 1 /\ Len(pasteItems[1]) > 1
                   THEN pasteToSelectedRows(pasteItems[1], data, selection)
                   ELSE pasteFromItems(pasteItems, data, currentCell))

\* The exposed pasteData operation.
PasteData(rawData) ==
    /\ data # NoData
    /\ CurrentCellOk
    /\ SelectionOk
    /\ Handler(pasteData(rawData))

\* handlePaste: the document's paste event.
HandlePaste(rawData) ==
    /\ ~readOnly
    /\ focus
    /\ editCell = NoEdit
    /\ currentCell # NoCell
    /\ PasteData(rawData)

-----------------------------------------------------------------------------
(* Direct change, row insertion and deletion *)

\* onChangeCellValue
onChangeCellValue(location, value) ==
    LET pushed(cells, h) ==
            [Cur EXCEPT !.data = cells, !.timer = cells,
                        !.undo = h.undo, !.undoIndex = h.undoIndex]
        set(r) == IF r.changed THEN pushed(r.cells, pushUndoList(r.cells)) ELSE Cur
    IN set(setCellValue(value, location, clone(data)))

OnChangeCellValue(location, value) ==
    /\ data # NoData
    /\ InMatrix(data, location.row, location.column)
    /\ Handler(onChangeCellValue(location, value))

\* columnHead: the first column that is not hidden
columnHead ==
    IF \E i \in 1..Len(columns) : ~columns[i].hidden
    THEN (CHOOSE i \in 1..Len(columns) :
            ~columns[i].hidden /\ \A j \in 1..(i - 1) : columns[j].hidden) - 1
    ELSE -1

\* Array.prototype.splice(at, 0, row)
spliceIn(cells, at, row) ==
    IF at >= Len(cells) THEN Append(cells, row)
    ELSE SubSeq(cells, 1, at) \o << row >> \o SubSeq(cells, at + 1, Len(cells))

\* insertRow(rowIndex); rowIndex is -1 for undefined
insertRow(rowIndex) ==
    IF readOnly THEN Cur
    ELSE LET cells == IF data = NoData THEN << >> ELSE data
             insertRowNumber == IF rowIndex # -1 THEN rowIndex + 1 ELSE Len(cells)
             location == Loc(insertRowNumber, columnHead)
             inserted(newData, h) ==
                [Cur EXCEPT !.currentCell = location,
                            !.selection = << location >>,
                            !.data = newData,
                            !.focus = TRUE,
                            !.currentPage = getPageNumberFromRowIndex(location.row),
                            !.timer = newData,
                            !.undo = h.undo,
                            !.undoIndex = h.undoIndex]
             push(newData) == inserted(newData, pushUndoList(newData))
         IN push(IF rowIndex # -1
                 THEN spliceIn(clone(cells), insertRowNumber,
                               makeNewRow(insertRowNumber, clone(cells)))
                 ELSE Append(clone(cells), makeNewRow(insertRowNumber, clone(cells))))

\* onInsertRow: insertRow(currentCell?.row)
OnInsertRow ==
    Handler(insertRow(IF currentCell = NoCell THEN -1 ELSE currentCell.row))

\* Array.prototype.splice(at, count)
spliceOut(cells, at, count) ==
    SubSeq(cells, 1, Min(at, Len(cells)))
        \o SubSeq(cells, Min(at + count, Len(cells)) + 1, Len(cells))

\* A deletion that does not wait for the answer.
deleteRowsUnasked(confirmed) ==
    IF readOnly \/ Len(selection) = 0 THEN Cur
    ELSE LET min == MinOf(SelRows)
             count == MaxOf(SelRows) - min + 1
             deleted(newData, h) ==
                [Cur EXCEPT !.currentCell = NoCell,
                            !.selection = << >>,
                            !.data = newData,
                            !.focus = FALSE,
                            !.timer = newData,
                            !.undo = h.undo,
                            !.undoIndex = h.undoIndex]
             push(newData) == deleted(newData, pushUndoList(newData))
         IN push(spliceOut(clone(data), min, count))

\* deleteRows, with the user's answer to window.confirm
deleteRows(confirmed) ==
    IF readOnly \/ Len(selection) = 0 \/ ~confirmed THEN Cur
    ELSE LET min == MinOf(SelRows)
             count == MaxOf(SelRows) - min + 1
             deleted(newData, h) ==
                [Cur EXCEPT !.currentCell = NoCell,
                            !.selection = << >>,
                            !.data = newData,
                            !.focus = FALSE,
                            !.timer = newData,
                            !.undo = h.undo,
                            !.undoIndex = h.undoIndex]
             push(newData) == deleted(newData, pushUndoList(newData))
         IN push(spliceOut(clone(data), min, count))

OnDeleteRows(confirmed) ==
    /\ data # NoData
    /\ CurrentCellOk
    /\ selection # << >> => MinOf(SelRows) >= 0
    /\ Handler(deleteRows(confirmed))

-----------------------------------------------------------------------------
(* Sorting *)

\* The order of the characters that occur in values.
charCode(ch) ==
    CASE ch \in Digits -> (CHOOSE n \in 0..9 : << "0", "1", "2", "3", "4", "5", "6", "7", "8", "9" >>[n + 1] = ch)
      [] ch = "a" -> 10
      [] ch = "b" -> 11
      [] ch = "n" -> 12
      [] OTHER -> 13

RECURSIVE compareText(_, _)
\* -1, 0 or 1 as a is before, equal to or after b as a string
compareText(a, b) ==
    IF a = << >> /\ b = << >> THEN 0
    ELSE IF a = << >> THEN -1
    ELSE IF b = << >> THEN 1
    ELSE IF charCode(Head(a)) < charCode(Head(b)) THEN -1
    ELSE IF charCode(Head(a)) > charCode(Head(b)) THEN 1
    ELSE compareText(Tail(a), Tail(b))

RECURSIVE toNumber(_, _)
\* The number a string of digits denotes, on top of acc.
toNumber(value, acc) ==
    IF value = << >> THEN acc
    ELSE toNumber(Tail(value), 10 * acc + charCode(Head(value)))

\* util.compareValue(a, b, valueType, order): negative, zero or positive
compareValue(a, b, valueType, order) ==
    LET c == IF valueType = "numeric" /\ IsNumeric(a) /\ IsNumeric(b)
             THEN (IF toNumber(a, 0) < toNumber(b, 0) THEN -1
                   ELSE IF toNumber(a, 0) > toNumber(b, 0) THEN 1 ELSE 0)
             ELSE compareText(a, b)
    IN IF order = "desc" THEN -c ELSE c

\* The value of the row's first cell of the column.
valueOf(row, name) ==
    row[CHOOSE k \in 1..Len(row) :
            row[k].entityName = name /\ \A j \in 1..(k - 1) : row[j].entityName # name].value

\* The comparator of the sort handler: it returns in the first pass of its loop.
compareRows(a, b, newSort) ==
    IF newSort = << >> THEN 0
    ELSE compareValue(valueOf(a, columns[findColumn(newSort[1].name)].name),
                      valueOf(b, columns[findColumn(newSort[1].name)].name),
                      columns[findColumn(newSort[1].name)].valueType,
                      newSort[1].order)

RECURSIVE insertSorted(_, _, _)
\* row put after the last row of sorted that does not come after it
insertSorted(sorted, row, newSort) ==
    IF sorted = << >> THEN << row >>
    ELSE IF compareRows(sorted[Len(sorted)], row, newSort) <= 0 THEN Append(sorted, row)
    ELSE Append(insertSorted(SubSeq(sorted, 1, Len(sorted) - 1), row, newSort),
                sorted[Len(sorted)])

RECURSIVE sortRows(_, _, _, _)
\* Array.prototype.sort(comparator), which is stable
sortRows(cells, i, sorted, newSort) ==
    IF i > Len(cells) THEN sorted
    ELSE sortRows(cells, i + 1, insertSorted(sorted, cells[i], newSort), newSort)

\* The click handler of a column's sort button.
sortButtonClick(name) ==
    IF ~options.sortable THEN Cur
    ELSE LET found == { i \in 1..Len(sort) : sort[i].name = name }
             order == IF found = { } THEN "undefined" ELSE sort[MinOf(found)].order
             newSort == << [name |-> name, order |-> IF order = "desc" THEN "asc" ELSE "desc"] >>
                            \o SelectSeq(sort, LAMBDA e : e.name # name)
         IN [Cur EXCEPT !.data = sortRows(clone(data), 1, << >>, newSort),
                        !.selection = << >>,
                        !.currentCell = NoCell]

\* A click that puts the column's key after the others.
sortAfterClickAppends(name) ==
    IF ~options.sortable THEN sort
    ELSE LET found == { i \in 1..Len(sort) : sort[i].name = name }
             order == IF found = { } THEN "undefined" ELSE sort[MinOf(found)].order
         IN SelectSeq(sort, LAMBDA e : e.name # name)
                \o << [name |-> name, order |-> IF order = "desc" THEN "asc" ELSE "desc"] >>

\* The sort keys the click leaves.
sortAfterClick(name) ==
    IF ~options.sortable THEN sort
    ELSE LET found == { i \in 1..Len(sort) : sort[i].name = name }
             order == IF found = { } THEN "undefined" ELSE sort[MinOf(found)].order
         IN << [name |-> name, order |-> IF order = "desc" THEN "asc" ELSE "desc"] >>
                \o SelectSeq(sort, LAMBDA e : e.name # name)

SortButtonClick(name) ==
    /\ data # NoData
    /\ CurrentCellOk
    /\ Step
    /\ Upd(sortButtonClick(name))
    /\ sort' = sortAfterClick(name)
    /\ UNCHANGED << props, prevItems, perPage, filter, dragging, mounted, notified >>

-----------------------------------------------------------------------------

ArrowKeys == { "left", "right", "up", "down" }
TabEnterKeys == { "tab", "enter", "shift+tab", "shift+enter" }

Next ==
    \/ \E its \in ItemLists : Rebuild(its)
    \/ TimerFire
    \/ \E r \in 0..(perPage - 1), c \in 0..(columnLength - 1), sh \in BOOLEAN :
            CellMouseDown(r, c, sh)
    \/ MouseUp
    \/ FocusOut
    \/ \E k \in { "Enter", "Delete", "a", "b" } : AnyKeyDown(k)
    \/ F2KeyDown
    \/ CellDoubleClick
    \/ \E v \in EditValues : EditorChange(v)
    \/ \E k \in { "Tab", "Enter", "Escape", "F2", "ArrowLeft", "ArrowRight", "ArrowUp", "ArrowDown" },
          m \in { "", "shift", "ctrl" } : EditorKeyDown(k, m)
    \/ \E v \in EditValues : EditorCommit(v)
    \/ EditorCancel
    \/ \E k \in ArrowKeys : HotkeyArrow(k)
    \/ \E k \in { "shift+left", "shift+right", "shift+up", "shift+down" } : HotkeyShiftArrow(k)
    \/ \E k \in TabEnterKeys : HotkeyTabEnter(k)
    \/ \E c \in { "undo", "redo" } : UndoRedo(c)
    \/ \E raw \in RawTexts : PasteData(raw)
    \/ \E raw \in RawTexts : HandlePaste(raw)
    \/ \E c \in 0..(columnLength - 1), v \in { << >>, << "b" >> } :
            OnChangeCellValue(Loc(0, c), v)
    \/ OnInsertRow
    \/ \E confirmed \in BOOLEAN : OnDeleteRows(confirmed)
    \/ \E name \in { "name", "x" } : SortButtonClick(name)

Spec == Init /\ [][Next]_vars

-----------------------------------------------------------------------------
(* A second grid: a hidden column, editable numeric and select columns, and
   every row-edge policy *)

\* A schema with a hidden column between visible ones.
ColumnsGrid ==
    << [name |-> "name", readOnly |-> FALSE, hidden |-> FALSE, required |-> TRUE,
        valueType |-> "text", cellType |-> "text", defaultValue |-> << "n" >>],
       [name |-> "h", readOnly |-> FALSE, hidden |-> TRUE, required |-> FALSE,
        valueType |-> "text", cellType |-> "text", defaultValue |-> << >>],
       [name |-> "x", readOnly |-> FALSE, hidden |-> FALSE, required |-> FALSE,
        valueType |-> "numeric", cellType |-> "numeric", defaultValue |-> << "0" >>],
       [name |-> "y", readOnly |-> FALSE, hidden |-> FALSE, required |-> FALSE,
        valueType |-> "text", cellType |-> "select", defaultValue |-> << >>] >>

GridItem(k, n, x, y) ==
    [key |-> << "item", k >>, name |-> n, h |-> << "h" >>, x |-> x, y |-> y]

GridItems == << GridItem(1, << "a" >>, << "1" >>, << "p" >>),
                GridItem(2, << "b" >>, << "2" >>, << "q" >>) >>

\* The row-edge policies and what Enter does on the last row.
GridOptions ==
    { [pressEnterOnLastRow |-> e, navigateCellFromRowEdge |-> n,
       sortable |-> TRUE, filterable |-> TRUE] :
        e \in { "insert", "none" }, n \in { "none", "loop", "prevOrNextRow" } }

InitGrid ==
    \E opts \in GridOptions : InitState(ColumnsGrid, GridItems, FALSE, FALSE, opts, 2)

\* Clipboard texts: a block of two rows of three values, one of two rows of
\* one value.
GridTexts ==
    { << "c", "\t", "3", "\t", "d", "\n", "e", "\t", "4", "\t", "f" >>,
      << "c", "\n", "e" >> }

\* The exposed setMode: the presentation layer opens a value picker.
SetMode(newMode) ==
    /\ mode # newMode
    /\ Handler([Cur EXCEPT !.mode = newMode])

-----------------------------------------------------------------------------
(* Copy *)

\* util.compareLocation: by row, then by column (negative, zero or positive).
compareLocation(a, b) ==
    IF a.row # b.row THEN a.row - b.row ELSE a.column - b.column

\* One location put into a sorted list, after the locations equal to it.
insertLocation(sorted, location) ==
    LET before == SelectSeq(sorted, LAMBDA l : compareLocation(l, location) <= 0)
        after == SelectSeq(sorted, LAMBDA l : compareLocation(l, location) > 0)
    IN before \o << location >> \o after

RECURSIVE sortLocations(_)
\* selection.sort(compareLocation)
sortLocations(locations) ==
    IF locations = << >> THEN << >>
    ELSE insertLocation(sortLocations(SubSeq(locations, 1, Len(locations) - 1)),
                        locations[Len(locations)])

RECURSIVE copyRows(_, _, _, _, _)
\* range.forEach(...) from the i-th location on, then the last row's values.
copyRows(range, i, currentRowIndex, rowValues, copiedData) ==
    IF i > Len(range)
    THEN IF Len(rowValues) > 0 THEN Append(copiedData, rowValues) ELSE copiedData
    ELSE LET location == range[i]
             flush == location.row # currentRowIndex
         IN copyRows(range, i + 1, location.row,
                     Append(IF flush THEN << >> ELSE rowValues,
                            At(data, location.row, location.column).value),
                     IF flush THEN Append(copiedData, rowValues) ELSE copiedData)

RECURSIVE joinWith(_, _)
\* Array.prototype.join(separator) over strings
joinWith(parts, separator) ==
    IF parts = << >> THEN << >>
    ELSE IF Len(parts) = 1 THEN parts[1]
    ELSE parts[1] \o << separator >> \o joinWith(Tail(parts), separator)

\* getSelectedCellValues throws: range[0] of an empty selection, or a location
\* out of the matrix.
getSelectedCellValuesOk ==
    /\ selection # << >>
    /\ SelectionOk

\* getSelectedCellValues: the text it returns.
getSelectedCellValues ==
    LET joined(copiedData) ==
            joinWith([r \in 1..Len(copiedData) |-> joinWith(copiedData[r], "\t")], "\n")
        copied(range) == joined(copyRows(range, 1, range[1].row, << >>, << >>))
    IN copied(sortLocations(selection))

\* handleCopy: the document's copy event; the sort is done in place on the
\* selection.
HandleCopy ==
    /\ focus
    /\ editCell = NoEdit
    /\ getSelectedCellValuesOk
    /\ Handler([Cur EXCEPT !.selection = sortLocations(selection)])

\* The events of the second grid.
NextGrid ==
    \/ \E r \in 0..(perPage - 1), c \in 0..(columnLength - 1), sh \in BOOLEAN :
            /\ ~columns[c + 1].hidden
            /\ CellMouseDown(r, c, sh)
    \/ \E k \in { "Enter", "Delete", "5" } : AnyKeyDown(k)
    \/ F2KeyDown
    \/ SetMode("select")
    \/ \E v \in { << >>, << "7" >> } : EditorChange(v)
    \/ \E k \in { "Tab", "Enter", "F2", "ArrowRight", "a" }, m \in { "", "shift", "ctrl" } :
            EditorKeyDown(k, m)
    \/ \E k \in ArrowKeys : HotkeyArrow(k)
    \/ \E k \in TabEnterKeys : HotkeyTabEnter(k)
    \/ \E raw \in GridTexts : PasteData(raw)
    \/ HandleCopy

SpecGrid == InitGrid /\ [][NextGrid]_vars


-----------------------------------------------------------------------------
(* Properties *)

\* The matrices pushUndoList and setCellValue are tried on in a state.
Matrices ==
    { m \in { data } \cup { buildData(l) : l \in ItemLists }
              \cup { undo[i] : i \in 1..Len(undo) } : m # NoData }

\* C1: with undo enabled, right after a step that pushes a history entry or
\* moves the history pointer (a commit of a change, an undo or a redo), the
\* history entry at the pointer has the rows and values of the live matrix.
HistoryEntryIsLiveMatrix ==
    [][(~disableUndo /\ (undo' # undo \/ undoIndex' # undoIndex))
        => /\ data' # NoData
           /\ undoIndex' >= 0
           /\ equalsCells(undo'[undoIndex' + 1], data')]_vars

\* C2: at a history pointer strictly between -1 and the last index, undo
\* followed by redo leaves a matrix value-equal to the live one and the
\* pointer where it was.
UndoThenRedoRestores ==
    (data # NoData /\ undoIndex > -1 /\ undoIndex < Len(undo) - 1)
        => LET after == restoreHistoryAt(restoreHistoryAt(Cur, "undo"), "redo")
           IN /\ equalsCells(after.data, data)
              /\ after.undoIndex = undoIndex

\* C3: pushUndoList leaves history and pointer alone when undo is disabled or
\* the matrix is value-equal to the entry at the pointer; otherwise the history
\* becomes the entries up to the pointer followed by the matrix, the pointer
\* advances by one to the last index, and a redo then changes nothing.
PushUndoListContract ==
    \A cells \in Matrices :
        LET h == pushUndoList(cells)
            pushed == [Cur EXCEPT !.undo = h.undo, !.undoIndex = h.undoIndex]
        IN IF disableUndo \/ (Len(undo) > 0 /\ Values(cells) = Values(undo[undoIndex + 1]))
           THEN h.undo = undo /\ h.undoIndex = undoIndex
           ELSE /\ Len(h.undo) = undoIndex + 2
                /\ \A i \in 1..(undoIndex + 1) : h.undo[i] = undo[i]
                /\ h.undo[undoIndex + 2] = cells
                /\ h.undoIndex = undoIndex + 1
                /\ h.undoIndex = Len(h.undo) - 1
                /\ restoreHistoryAt(pushed, "redo") = pushed

\* C3 witness: entries lie after the pointer and a matrix differs from the
\* entry at the pointer, so a push discards them.
PushDiscardsRedoEntries ==
    /\ ~disableUndo
    /\ undoIndex < Len(undo) - 1
    /\ \E cells \in Matrices : Values(cells) # Values(undo[undoIndex + 1])

RebuildReseedsHistory ==
    [][(~disableUndo /\ items' # items)
        => /\ data' = buildData(items')
           /\ Len(undo') = 1
           /\ undoIndex' = 0
           /\ equalsCells(undo'[1], data')]_vars

\* C6: on a read-only grid no operation or event changes a cell value or the
\* number of rows, pushes a history entry or schedules a notification.
ReadOnlyGridIsNeverChanged ==
    [][(readOnly /\ items' = items /\ sort' = sort)
        => /\ Values(data') = Values(data)
           /\ undo' = undo
           /\ undoIndex' = undoIndex
           /\ (timer' = timer \/ timer' = NoTimer)]_vars

\* C7: setCellValue returns false and leaves value, invalid flag and message
\* of the cell when the grid or the cell is read-only or the column is not in
\* the schema; otherwise it returns true exactly when the value differs, and
\* the cell holds the value.  No other cell is touched.
SetCellValueContract ==
    \A cells \in Matrices :
        \A r \in 0..(Len(cells) - 1), c \in 0..(columnLength - 1), value \in EditValues :
            LET cell == At(cells, r, c)
                res == setCellValue(value, Loc(r, c), cells)
                after == At(res.cells, r, c)
            IN /\ IF readOnly \/ cell.readOnly \/ findColumn(cell.entityName) = 0
                  THEN /\ ~res.changed
                       /\ after.value = cell.value
                       /\ after.invalid = cell.invalid
                       /\ after.invalidMessage = cell.invalidMessage
                  ELSE /\ res.changed <=> (value # cell.value)
                       /\ after.value = value
               /\ \A r2 \in 0..(Len(cells) - 1), c2 \in 0..(columnLength - 1) :
                        (r2 # r \/ c2 # c) => At(res.cells, r2, c2) = At(cells, r2, c2)

\* C7 witness: setCellValue has emptied a cell of the required column, beside
\* a read-only cell it refuses to change.
SetCellValueHasActed ==
    /\ data # NoData
    /\ \E r \in 0..(Len(data) - 1) :
            /\ At(data, r, 0).value = << >>
            /\ At(data, r, 0).invalid
            /\ At(data, r, 1).readOnly

\* C8: every step that changes a cell value, the number of rows or the order
\* of the rows leaves a notification pending that carries the live matrix.
EveryChangeIsNotified ==
    [][(items' = items /\ Values(data') # Values(data))
        => /\ timer' # NoTimer
           /\ equalsCells(timer', data')]_vars

\* What a commit of value v leaves, committed being the matrix commitEditing
\* hands to pushUndoList.
CommitPost(v, committed, pushesIffChanged) ==
    LET row == editCell.location.row
        column == editCell.location.column
        cell == At(data, row, column)
        writable == ~readOnly /\ ~cell.readOnly
        changed == writable /\ cell.value # v
    IN /\ editCell' = NoEdit
       /\ mode' = "normal"
       /\ ~At(data', row, column).editing
       /\ At(data', row, column).value = (IF writable THEN v ELSE cell.value)
       /\ changed => timer' = data'
       /\ ~changed => (timer' = timer /\ undo' = undo /\ undoIndex' = undoIndex)
       /\ IF pushesIffChanged
          THEN changed => (/\ undoIndex' = undoIndex + 1
                           /\ Len(undo') = undoIndex + 2
                           /\ undo'[undoIndex' + 1] = committed)
          ELSE changed => (/\ undo' = pushUndoList(committed).undo
                           /\ undoIndex' = pushUndoList(committed).undoIndex)

\* C9 (amended): a commit applies the pending value to the session's cell,
\* clears the session and returns the mode to normal; a notification is
\* scheduled and the matrix is handed to pushUndoList exactly when the value
\* changed, so a history entry is pushed unless undo is disabled or the matrix
\* is value-equal to the entry at the pointer.  Checked on the editor's commit
\* action and on Tab and Enter pressed in the editor with a current cell.
CommitEditingContract ==
    [][/\ \A v \in EditValues : EditorCommit(v) => CommitPost(v, data', FALSE)
       /\ \A k \in { "Tab", "Enter" }, m \in { "", "shift" } :
            (currentCell # NoCell /\ EditorKeyDown(k, m))
                => CommitPost(editCell.value, SubSeq(data', 1, Len(data)), FALSE)]_vars

\* C9 witness: an edit session is open on a writable cell with a pending value
\* that differs from the cell's.
PendingValueDiffers ==
    /\ editCell # NoEdit
    /\ EditLocationOk
    /\ ~readOnly
    /\ editCell.value # At(data, editCell.location.row, editCell.location.column).value
    /\ editCell.value \in EditValues

\* C9 as stated: a history snapshot is pushed if and only if the value changed.
CommitPushesIffChanged ==
    [][/\ \A v \in EditValues : EditorCommit(v) => CommitPost(v, data', TRUE)
       /\ \A k \in { "Tab", "Enter" }, m \in { "", "shift" } :
            (currentCell # NoCell /\ EditorKeyDown(k, m))
                => CommitPost(editCell.value, SubSeq(data', 1, Len(data)), TRUE)]_vars

\* C10: cancelling an edit session clears the session and returns the mode to
\* normal; cell values, history, pointer and pending notification stay.
CancelEditingContract ==
    [][(EditorCancel \/ \E m \in { "", "shift", "ctrl" } : EditorKeyDown("Escape", m))
        => /\ editCell' = NoEdit
           /\ mode' = "normal"
           /\ data' = endEditing(data)
           /\ Values(data') = Values(data)
           /\ undo' = undo
           /\ undoIndex' = undoIndex
           /\ timer' = timer]_vars

\* C10 witness: a session with a pending value that differs from the cell's is
\* open while a notification is pending and the history has two entries.
CancelHasSomethingToKeep ==
    /\ editCell # NoEdit
    /\ EditLocationOk
    /\ editCell.value # At(data, editCell.location.row, editCell.location.column).value
    /\ timer # NoTimer
    /\ Len(undo) >= 2


-----------------------------------------------------------------------------
(* Keys in the open editor *)

ArrowEventKeys == { "ArrowLeft", "ArrowRight", "ArrowUp", "ArrowDown" }

\* The cell one step from the current cell in the arrow's direction when the
\* matrix has such a cell, else the current cell.
arrowTarget(key) ==
    LET t == CASE key = "ArrowLeft" -> Loc(currentCell.row, currentCell.column - 1)
               [] key = "ArrowRight" -> Loc(currentCell.row, currentCell.column + 1)
               [] key = "ArrowUp" -> Loc(currentCell.row - 1, currentCell.column)
               [] key = "ArrowDown" -> Loc(currentCell.row + 1, currentCell.column)
    IN IF InMatrix(data, t.row, t.column) THEN t ELSE currentCell

\* The matrix cells holds the session's pending value in the edited cell (its
\* old value when the cell is read-only) and no editing flag there.
sessionCommitted(cells) ==
    /\ cells # NoData
    /\ InMatrix(cells, editCell.location.row, editCell.location.column)
    /\ LET old == At(data, editCell.location.row, editCell.location.column)
           new == At(cells, editCell.location.row, editCell.location.column)
       IN /\ ~new.editing
          /\ new.value = IF readOnly \/ old.readOnly THEN old.value ELSE editCell.value

\* What claim C11 says of the arrow key `key` pressed with `modifier` in the
\* editor of the current cell.
arrowKeyPost(key, modifier) ==
    LET s == handleEditorKeyDown(key, modifier)
    IN /\ mode = "input" =>
            /\ s.editCell = NoEdit
            /\ s.mode = "normal"
            /\ sessionCommitted(s.data)
            /\ s.currentCell = arrowTarget(key)
       /\ mode = "edit" => s = Cur

EditorKeys ==
    { "Tab", "Enter", "Escape", "F2", "ArrowLeft", "ArrowRight", "ArrowUp", "ArrowDown", "a" }

\* What claim C12 says of `key` pressed with `modifier` in the open editor.
modeTransitionPost(key, modifier) ==
    LET s == handleEditorKeyDown(key, modifier)
    IN /\ (mode = "input" /\ key = "F2") => s = [Cur EXCEPT !.mode = "edit"]
       /\ (mode = "edit" /\ key = "F2") => s = [Cur EXCEPT !.mode = "input"]
       /\ mode = "select" =>
            /\ s.mode = "normal"
            /\ s.editCell = editCell
            /\ s.data # NoData
            /\ Values(s.data) = Values(data)
       /\ (s.mode # mode /\ s.editCell # NoEdit) =>
            \/ key = "F2" /\ mode \in { "input", "edit" }
            \/ mode = "select"

\* C12: F2 in mode input gives mode edit, F2 in mode edit gives mode input, any
\* key pressed in mode select gives mode normal, no other key changes the mode
\* of an open session, and these mode changes leave the pending value, the
\* session's location and every cell value as they were.
ModeTransitionsChangeOnlyTheMode ==
    \A key \in EditorKeys, modifier \in { "", "shift", "ctrl" } :
        (/\ editCell # NoEdit
         /\ EditLocationOk
         /\ handleEditorKeyDownOk(key, modifier))
        => modeTransitionPost(key, modifier)

\* The cell at `location` is in the selection.
isSelected(location) == \E i \in 1..Len(selection) : selection[i] = location

\* The matrix cells is the live matrix with `value` in every selected cell
\* that is not read-only, every other value as it was.
selectionSetTo(cells, value) ==
    /\ cells # NoData
    /\ Len(cells) = Len(data)
    /\ \A r \in 0..(Len(data) - 1) :
        /\ Len(cells[r + 1]) = Len(data[r + 1])
        /\ \A c \in 0..(Len(data[r + 1]) - 1) :
            At(cells, r, c).value =
                IF isSelected(Loc(r, c)) /\ ~readOnly /\ ~At(data, r, c).readOnly
                THEN value
                ELSE At(data, r, c).value

\* What Ctrl+Enter leaves in the matrix: the pending value in the selection.
bulkReplaced(cells) == selectionSetTo(cells, editCell.value)

\* What claim C13 says of the state s that Ctrl+Enter leaves; the snapshot is
\* pushed whenever a value changed (asStated) or is pushUndoList's to push.
bulkReplacePost(s, asStated) ==
    /\ bulkReplaced(s.data)
    /\ IF Values(s.data) # Values(data)
       THEN /\ s.timer # NoTimer
            /\ equalsCells(s.timer, s.data)
            /\ IF asStated
               THEN /\ s.undoIndex = undoIndex + 1
                    /\ Len(s.undo) = s.undoIndex + 1
                    /\ equalsCells(s.undo[s.undoIndex + 1], s.data)
               ELSE /\ s.undo = pushUndoList(s.data).undo
                    /\ s.undoIndex = pushUndoList(s.data).undoIndex
       ELSE /\ s.timer = timer
            /\ s.undo = undo
            /\ s.undoIndex = undoIndex

\* C13 (amended): Ctrl+Enter or Command+Enter in an open editor sets every
\* selected cell that is not read-only to the pending value and leaves the
\* other cells alone; if a value changed, one notification is scheduled and
\* the matrix is handed to pushUndoList, which pushes a snapshot when undo is
\* enabled and the matrix differs from the entry at the pointer.
BulkReplaceContract ==
    \A modifier \in { "ctrl", "command" } :
        (editCell # NoEdit /\ handleEditorKeyDownOk("Enter", modifier))
        => bulkReplacePost(handleEditorKeyDown("Enter", modifier), FALSE)

\* C13 witness: a session is open, and the selection holds a read-only cell
\* and a writable cell whose value is not the pending value.
BulkReplaceHasWork ==
    /\ editCell # NoEdit
    /\ handleEditorKeyDownOk("Enter", "ctrl")
    /\ \E i, j \in 1..Len(selection) :
        /\ At(data, selection[i].row, selection[i].column).readOnly
        /\ ~At(data, selection[j].row, selection[j].column).readOnly
        /\ At(data, selection[j].row, selection[j].column).value # editCell.value
    /\ Values(handleEditorKeyDown("Enter", "ctrl").data) # Values(data)

\* C13 as stated: a snapshot is pushed whenever a value changed.
BulkReplacePushesSnapshot ==
    \A modifier \in { "ctrl", "command" } :
        (editCell # NoEdit /\ handleEditorKeyDownOk("Enter", modifier))
        => bulkReplacePost(handleEditorKeyDown("Enter", modifier), TRUE)

\* No cell of the matrix is flagged as being edited.
noCellEditing(cells) ==
    /\ cells # NoData
    /\ \A r \in 0..(Len(cells) - 1), c \in 0..(columnLength - 1) :
        InMatrix(cells, r, c) => ~At(cells, r, c).editing

\* C14: Ctrl+Enter or Command+Enter in an open editor is a commit: it leaves
\* no edit session, no cell flagged as editing, and mode normal.
CtrlEnterEndsSession ==
    \A modifier \in { "ctrl", "command" } :
        (editCell # NoEdit /\ EditLocationOk /\ handleEditorKeyDownOk("Enter", modifier))
        => LET s == handleEditorKeyDown("Enter", modifier)
           IN /\ s.editCell = NoEdit
              /\ s.mode = "normal"
              /\ noCellEditing(s.data)

\* The pending value claim C15 gives a session opened by `key` on the current cell.
seededValue(key) ==
    IF key = "Enter" THEN At(data, currentCell.row, currentCell.column).value
    ELSE IF key = "Delete" THEN << >>
    ELSE << key >>

\* C15: in normal mode with focus and a current cell that is not read-only, a
\* key press opens an edit session on the current cell in mode input, seeded
\* with the pressed character, with the cell's value for Enter and with the
\* empty string for Delete with one selected cell, whatever the cell's type;
\* no cell value changes.
KeyPressSeedsPendingValue ==
    [][\A key \in { "Enter", "Delete", "5", "a" } :
        (/\ mode = "normal"
         /\ focus
         /\ currentCell # NoCell
         /\ CurrentCellOk
         /\ ~readOnly
         /\ ~At(data, currentCell.row, currentCell.column).readOnly
         /\ key = "Delete" => Len(selection) = 1
         /\ AnyKeyDown(key))
        => /\ editCell' = [location |-> currentCell, value |-> seededValue(key)]
           /\ mode' = "input"
           /\ Values(data') = Values(data)]_vars

\* What claim C16 says of a Delete step; the snapshot is pushed whenever a
\* value changed and the single cell always gets its session (asStated), or
\* the snapshot is pushUndoList's to push and a read-only cell gets no session.
deletePost(asStated) ==
    IF Len(selection) > 1
    THEN /\ selectionSetTo(data', << >>)
         /\ editCell' = NoEdit
         /\ mode' = "normal"
         /\ IF Values(data') # Values(data)
            THEN /\ timer' # NoTimer
                 /\ equalsCells(timer', data')
                 /\ IF asStated
                    THEN /\ undoIndex' = undoIndex + 1
                         /\ Len(undo') = undoIndex' + 1
                         /\ equalsCells(undo'[undoIndex' + 1], data')
                    ELSE /\ undo' = pushUndoList(data').undo
                         /\ undoIndex' = pushUndoList(data').undoIndex
            ELSE UNCHANGED << timer, undo, undoIndex >>
    ELSE /\ Values(data') = Values(data)
         /\ UNCHANGED << timer, undo, undoIndex >>
         /\ IF asStated \/ ~(readOnly \/ At(data, currentCell.row, currentCell.column).readOnly)
            THEN /\ editCell' # NoEdit
                 /\ editCell'.location = currentCell
                 /\ mode' = "input"
            ELSE UNCHANGED << editCell, mode >>

\* C16 (amended): in normal mode with focus, Delete with more than one
\* selected cell empties every selected cell that is not read-only, opens no
\* session, and, if a value changed, schedules one notification and hands the
\* matrix to pushUndoList; with exactly one selected cell it changes no value
\* and opens a session on the current cell unless that cell is read-only.
DeleteClearsOrEdits ==
    [][(/\ mode = "normal"
        /\ Len(selection) >= 1
        /\ AnyKeyDown("Delete"))
       => deletePost(FALSE)]_vars

\* C16 witness: Delete has emptied a selected cell of a selection of several
\* cells, one of them read-only, and no session is open.
DeleteHasCleared ==
    /\ mode = "normal"
    /\ editCell = NoEdit
    /\ Len(selection) > 1
    /\ SelectionOk
    /\ timer # NoTimer
    /\ equalsCells(timer, data)
    /\ \E i, j \in 1..Len(selection) :
        /\ At(data, selection[i].row, selection[i].column).readOnly
        /\ At(data, selection[i].row, selection[i].column).value # << >>
        /\ ~At(data, selection[j].row, selection[j].column).readOnly
        /\ At(data, selection[j].row, selection[j].column).value = << >>

\* C16 as stated: a snapshot is pushed whenever a value changed, and a single
\* selected cell always gets an edit session.
DeleteClearsOrEditsAsStated ==
    [][(/\ mode = "normal"
        /\ Len(selection) >= 1
        /\ AnyKeyDown("Delete"))
       => deletePost(TRUE)]_vars

\* The cursor or the selection of state s is not the live one.
cursorMoved(s) == s.currentCell # currentCell \/ s.selection # selection

\* The cursor of state s is on `location`, which is the whole selection.
cursorOn(s, location) == s.currentCell = location /\ s.selection = << location >>

\* What claim C17 says of the state `right` that a step to the right and the
\* state `left` that a step to the left leave.
rowEdgePost(right, left) ==
    LET row == currentCell.row
        edge == options.navigateCellFromRowEdge
        last == columnLength - 1
    IN /\ currentCell.column = last =>
            CASE edge = "loop" -> cursorOn(right, Loc(row, 0))
              [] edge = "prevOrNextRow" ->
                    IF row + 1 < Len(data) THEN cursorOn(right, Loc(row + 1, 0))
                    ELSE ~cursorMoved(right)
              [] OTHER -> ~cursorMoved(right)
       /\ currentCell.column = 0 =>
            CASE edge = "loop" -> cursorOn(left, Loc(row, last))
              [] edge = "prevOrNextRow" ->
                    IF row - 1 >= 0 THEN cursorOn(left, Loc(row - 1, last))
                    ELSE ~cursorMoved(left)
              [] OTHER -> ~cursorMoved(left)
       /\ \A s \in { right, left } :
            cursorMoved(s) =>
                /\ InMatrix(s.data, s.currentCell.row, s.currentCell.column)
                /\ ~At(s.data, s.currentCell.row, s.currentCell.column).hidden
                /\ s.currentCell.row = row \/ currentCell.column \in { 0, last }

\* C17: a step right from the last column lands on column 0 of the same row
\* under 'loop', on column 0 of the next row under 'prevOrNextRow' if there is
\* one, and leaves cursor and selection alone without a wrap policy; the same
\* to the left from column 0; and an accepted step never lands on a hidden cell.
RowEdgePolicies ==
    (/\ editCell = NoEdit
     /\ data # NoData
     /\ currentCell # NoCell
     /\ CurrentCellOk
     /\ ~At(data, currentCell.row, currentCell.column).hidden)
    => /\ rowEdgePost(keyDownArrow("right"), keyDownArrow("left"))
       /\ rowEdgePost(keyDownTabEnter("tab"), keyDownTabEnter("shift+tab"))

\* C17 witness: under 'prevOrNextRow' the cursor is on column 0 of the second
\* row, so a step left wraps to the row above and a step right skips the
\* hidden column.
StepsWrapAndSkip ==
    /\ options.navigateCellFromRowEdge = "prevOrNextRow"
    /\ editCell = NoEdit
    /\ data # NoData
    /\ currentCell = Loc(1, 0)
    /\ At(data, 1, 1).hidden
    /\ keyDownArrow("left").currentCell = Loc(0, columnLength - 1)
    /\ keyDownArrow("right").currentCell = Loc(1, 2)

\* The move that left state s was rejected: cursor, selection, page and the
\* number of rows are the live ones.
moveRejected(s) ==
    /\ ~cursorMoved(s)
    /\ s.currentPage = currentPage
    /\ s.data # NoData
    /\ Len(s.data) = Len(data)

\* State s has one more row than the live matrix, built by makeNewRow, and the
\* cursor is on it.
rowAppended(s) ==
    /\ s.data # NoData
    /\ Len(s.data) = Len(data) + 1
    /\ SubSeq(s.data, 1, Len(data)) = data
    /\ s.data[Len(data) + 1] = makeNewRow(Len(data), data)
    /\ cursorOn(s, Loc(Len(data), currentCell.column))
    /\ s.currentPage = getPageNumberFromRowIndex(Len(data))

\* C18: a cursor move to a row before row 0 is rejected; a move to a row past
\* the last one is rejected unless it was caused by Enter and
\* pressEnterOnLastRow is 'insert', and then one row built by makeNewRow is
\* appended and the cursor lands on it.
RowBounds ==
    (/\ editCell = NoEdit
     /\ data # NoData
     /\ currentCell # NoCell
     /\ CurrentCellOk)
    => /\ currentCell.row = 0 =>
            /\ moveRejected(keyDownArrow("up"))
            /\ moveRejected(keyDownTabEnter("shift+enter"))
            /\ (currentCell.column = 0 /\ options.navigateCellFromRowEdge = "prevOrNextRow")
                => moveRejected(keyDownArrow("left")) /\ moveRejected(keyDownTabEnter("shift+tab"))
       /\ currentCell.row = Len(data) - 1 =>
            /\ moveRejected(keyDownArrow("down"))
            /\ (currentCell.column = columnLength - 1
                    /\ options.navigateCellFromRowEdge = "prevOrNextRow")
                => moveRejected(keyDownArrow("right")) /\ moveRejected(keyDownTabEnter("tab"))
            /\ IF options.pressEnterOnLastRow = "insert"
               THEN rowAppended(keyDownTabEnter("enter"))
               ELSE moveRejected(keyDownTabEnter("enter"))

\* C18 witness: Enter on the last row has appended a third row, on the second
\* page, and the cursor is on it.
EnterHasAppendedRow ==
    /\ options.pressEnterOnLastRow = "insert"
    /\ data # NoData
    /\ Len(data) = 3
    /\ data[3] = makeNewRow(2, SubSeq(data, 1, 2))
    /\ currentCell.row = 2
    /\ selection = << currentCell >>
    /\ currentPage = 1

\* The non-hidden columns of a row at or to the right of column c, ascending.
visibleColumnsFrom(cells, row, c) ==
    SelectSeq([k \in 1..(Len(cells[row + 1]) - c) |-> c + k - 1],
              LAMBDA column : ~At(cells, row, column).hidden)

\* An M x N block anchored at current fits: enough rows, and in each of them
\* enough non-hidden columns.
blockFits(M, N, cells, current) ==
    /\ current.row + M <= Len(cells)
    /\ \A i \in 0..(M - 1) : Len(visibleColumnsFrom(cells, current.row + i, current.column)) >= N

\* The cells an M x N block anchored at current is to be written to, in
\* row-major order.
pasteTargets(M, N, cells, current) ==
    [k \in 1..(M * N) |->
        Loc(current.row + ((k - 1) \div N),
            visibleColumnsFrom(cells, current.row + ((k - 1) \div N),
                               current.column)[((k - 1) % N) + 1])]

\* What the claim says of the cells pasteFromItems has written, r being its
\* result.
pastedRowMajor(r, M, N, cells, current) ==
    /\ r.selection = pasteTargets(M, N, cells, current)
    /\ \A a, b \in 1..Len(r.selection) : a # b => r.selection[a] # r.selection[b]
    /\ \A a \in 1..Len(r.selection) :
            ~At(cells, r.selection[a].row, r.selection[a].column).hidden

\* C19: a block of M > 1 rows of N values pasted at the current cell, in a
\* matrix with enough rows and non-hidden columns, is written to M x N
\* distinct non-hidden cells: the j-th value of row i to the j-th non-hidden
\* column at or right of the anchor.
PasteBlockFillsVisibleColumns ==
    (/\ data # NoData
     /\ currentCell # NoCell
     /\ CurrentCellOk)
    => \A rawData \in GridTexts :
        LET pasteItems == parsePasteItems(rawData)
            M == Len(pasteItems)
            N == Len(pasteItems[1])
        IN (/\ M > 1
            /\ \A i \in 1..M : Len(pasteItems[i]) = N
            /\ blockFits(M, N, data, currentCell))
           => pastedRowMajor(pasteFromItems(pasteItems, data, currentCell),
                             M, N, data, currentCell)

\* The text the claim describes: one line per distinct selected row, ascending,
\* holding the values of the row's selected cells by ascending column.
selectedValuesRowMajor ==
    LET sorted == sortLocations(selection)
        rows == sortedRows({ sorted[i].row : i \in 1..Len(sorted) })
        line(row) ==
            LET inRow == SelectSeq(sorted, LAMBDA l : l.row = row)
            IN joinWith([k \in 1..Len(inRow) |-> At(data, inRow[k].row, inRow[k].column).value],
                        "\t")
    IN joinWith([k \in 1..Len(rows) |-> line(rows[k])], "\n")

\* C20: getSelectedCellValues returns the selected values in row-major order,
\* tab-joined within a row and newline-joined between rows; for an empty
\* selection it returns the empty string without an error; it changes no
\* state.
CopyReturnsRowMajorText ==
    (data # NoData /\ SelectionOk)
    => /\ IF selection = << >>
          THEN getSelectedCellValuesOk /\ getSelectedCellValues = << >>
          ELSE getSelectedCellValues = selectedValuesRowMajor
       /\ [Cur EXCEPT !.selection = sortLocations(selection)] = Cur

-----------------------------------------------------------------------------
(* The projection state the hook exposes, and the handlers of the filter
   inputs and of the pager *)

\* emptyRows
emptyRows ==
    perPage - Min(perPage, (IF data = NoData THEN 0 ELSE Len(data)) - currentPage * perPage)

\* last: Math.ceil(data.length / perPage) - 1, and 0 without rows
last ==
    IF data = NoData \/ Len(data) = 0 THEN 0
    ELSE (Len(data) + perPage - 1) \div perPage - 1

\* The projection state in the hook's return value.
projection ==
    [emptyRows |-> emptyRows,
     page |-> currentPage,
     total |-> Len(filteredData),
     lastPage |-> last,
     hasPrev |-> currentPage # 0,
     hasNext |-> currentPage # last,
     rowsPerPage |-> perPage]

\* clearSelectionAndCurrentCell
clearSelectionAndCurrentCell ==
    [Cur EXCEPT !.data = clone(data), !.currentCell = NoCell, !.selection = << >>]

\* clearSelectionAndCurrentCell reads cells[currentCell.row][currentCell.column]
\* and the selected cells: it throws when one of them is not in the matrix.
clearSelectionOk ==
    /\ data # NoData
    /\ CurrentCellOk
    /\ SelectionOk

\* onChangeFilter: the text of the filter input of column name is now value.
OnChangeFilter(name, value) ==
    /\ options.filterable => clearSelectionOk
    /\ Step
    /\ Upd(IF options.filterable
           THEN [clearSelectionAndCurrentCell EXCEPT !.currentPage = 0]
           ELSE Cur)
    /\ filter' = IF options.filterable THEN [filter EXCEPT ![name] = value] ELSE filter
    /\ UNCHANGED << props, prevItems, perPage, sort, dragging, mounted, notified >>

\* onChangePage
OnChangePage(newPage) ==
    /\ clearSelectionOk
    /\ Handler([clearSelectionAndCurrentCell EXCEPT !.currentPage = newPage])

\* parseInt(value, 10) of a string of digits; -1 stands for NaN.
parseInt(value) ==
    IF value # << >> /\ \A i \in 1..Len(value) : value[i] \in Digits
    THEN toNumber(value, 0)
    ELSE -1

\* onChangeRowsPerPage: value is the value of the chosen option.
OnChangeRowsPerPage(value) ==
    /\ parseInt(value) # -1 => clearSelectionOk
    /\ Step
    /\ Upd(IF parseInt(value) # -1
           THEN [clearSelectionAndCurrentCell EXCEPT !.currentPage = 0]
           ELSE Cur)
    /\ perPage' = IF parseInt(value) # -1 THEN parseInt(value) ELSE perPage
    /\ UNCHANGED << props, prevItems, filter, sort, dragging, mounted, notified >>

\* A schema of two editable, sortable, filterable columns.
ColumnsView ==
    << [name |-> "name", readOnly |-> FALSE, hidden |-> FALSE, required |-> FALSE,
        valueType |-> "text", cellType |-> "text", defaultValue |-> << "n" >>],
       [name |-> "x", readOnly |-> FALSE, hidden |-> FALSE, required |-> FALSE,
        valueType |-> "numeric", cellType |-> "numeric", defaultValue |-> << "0" >>] >>

\* n records; those of generation g have keys of their own.  Their names are
\* equal, start with one another, or contain one another.
ViewItems(n, g) ==
    LET names == << << "a" >>, << "a", "b" >>, << "b", "a" >>, << "a" >> >>
        numbers == << << "2" >>, << "1" >>, << "1" >> >>
    IN [k \in 1..n |-> Item(k + 100 * g, names[((k - 1) % 4) + 1], numbers[((k - 1) % 3) + 1])]

\* Record lists of three and of twelve records, and the same records with
\* other keys.
ViewItemLists == { ViewItems(3, 0), ViewItems(3, 1), ViewItems(12, 0) }

FilterTexts == { << >>, << "a" >>, << "A" >> }

InitView ==
    \E its \in { ViewItems(3, 0), ViewItems(12, 0) }, rpp \in { 2, 5 } :
        InitState(ColumnsView, its, FALSE, FALSE, OptionsInsert, rpp)

\* The events of the third grid.
NextView ==
    \/ \E name \in { "name", "x" }, value \in FilterTexts : OnChangeFilter(name, value)
    \/ \E newPage \in 0..3 : OnChangePage(newPage)
    \/ \E value \in { << "2" >>, << "5" >>, << "x" >> } : OnChangeRowsPerPage(value)
    \/ \E name \in { "name", "x" } : SortButtonClick(name)
    \/ \E its \in ViewItemLists : Rebuild(its)
    \/ \E r \in 0..(perPage - 1), sh \in BOOLEAN : CellMouseDown(r, 0, sh)
    \/ \E confirmed \in BOOLEAN : OnDeleteRows(confirmed)

SpecView == InitView /\ [][NextView]_vars

-----------------------------------------------------------------------------
(* Claims on the projection *)

\* A step of a filter input or of the pager.
FilterOrPagerStep ==
    \/ \E name \in { "name", "x" }, value \in FilterTexts : OnChangeFilter(name, value)
    \/ \E newPage \in 0..3 : OnChangePage(newPage)
    \/ \E value \in { << "2" >>, << "5" >>, << "x" >> } : OnChangeRowsPerPage(value)

\* C21: a filter text change, a click on a sort control, a page change and a
\* rows-per-page change leave the live matrix as it was: the same rows in the
\* same order with the same cell values.
ProjectionKeepsMatrix ==
    [][(FilterOrPagerStep \/ \E name \in { "name", "x" } : SortButtonClick(name))
        => data' = data]_vars

RECURSIVE compareByKeys(_, _, _)
\* Rows a and b compared by the first of the keys on which their values differ.
compareByKeys(a, b, keys) ==
    IF keys = << >> THEN 0
    ELSE LET column == columns[findColumn(keys[1].name)]
             c == compareValue(valueOf(a, column.name), valueOf(b, column.name),
                               column.valueType, keys[1].order)
         IN IF c # 0 THEN c ELSE compareByKeys(a, b, Tail(keys))

\* C22: with several sort keys, the rows a click on a sort control leaves are
\* ordered by the first key of the list on which two rows differ: rows equal
\* on the primary key are ordered by the next key, and so on.
SortOrdersByFirstDifferingKey ==
    (data # NoData /\ CurrentCellOk /\ options.sortable)
    => \A name \in { "name", "x" } :
        Len(sortAfterClick(name)) >= 2
        => \A i \in 1..(Len(sortButtonClick(name).data) - 1) :
                compareByKeys(sortButtonClick(name).data[i],
                              sortButtonClick(name).data[i + 1],
                              sortAfterClick(name)) <= 0

\* What a click on the sort control of column name leaves: newSort is the
\* list of sort keys, s the state.
sortClickPost(name, newSort, s) ==
    /\ newSort # << >>
    /\ newSort[1].name = name
    /\ newSort[1].order =
            IF \E i \in 1..Len(sort) : sort[i].name = name /\ sort[i].order = "desc"
            THEN "asc" ELSE "desc"
    /\ SubSeq(newSort, 2, Len(newSort)) = SelectSeq(sort, LAMBDA e : e.name # name)
    /\ \A i, j \in 1..Len(newSort) : i # j => newSort[i].name # newSort[j].name
    /\ s.selection = << >>
    /\ s.currentCell = NoCell

\* C23: a click on column A's sort control, sorting being enabled, makes A the
\* first sort key, keeps the other keys and their order, keeps each column at
\* most once in the list, flips A's order (descending for a column not in
\* the list), and clears the selection and the current cell.
SortClickContract ==
    (data # NoData /\ CurrentCellOk /\ options.sortable)
    => \A name \in { "name", "x" } :
            sortClickPost(name, sortAfterClick(name), sortButtonClick(name))

\* C23 witness: name was clicked, then x, then name again.
NameClickedAgain ==
    /\ sort = << [name |-> "name", order |-> "asc"], [name |-> "x", order |-> "desc"] >>
    /\ selection = << >>
    /\ currentCell = NoCell

\* The string v starts with the string p.
startsWith(v, p) ==
    /\ Len(p) <= Len(v)
    /\ \A i \in 1..Len(p) : v[i] = p[i]

\* The row passes every filter text that is not empty.
passesFilter(row) ==
    \A i \in 1..Len(columns) :
        filter[columns[i].name] # << >>
        => startsWith(valueOf(row, columns[i].name), filter[columns[i].name])

\* C24: the filtered view holds exactly the rows whose values start with the
\* filter text of every column that has one, in matrix order; without filter
\* texts it holds every row; total is the number of filtered rows.
FilteredViewContract ==
    data # NoData
    => /\ filteredData = SelectSeq(data, passesFilter)
       /\ (\A i \in 1..Len(columns) : filter[columns[i].name] = << >>) => filteredData = data
       /\ projection.total = Cardinality({ r \in 1..Len(data) : passesFilter(data[r]) })

\* C24 witness: the filter text a of column name keeps the rows named a and
\* ab, and drops a row named ba.
FilterKeepsSomeRows ==
    /\ data # NoData
    /\ filter["name"] = << "a" >>
    /\ \E r \in 1..Len(data) : valueOf(data[r], "name") = << "b", "a" >>
    /\ \E r \in 1..Len(filteredData) : valueOf(filteredData[r], "name") = << "a", "b" >>
    /\ Len(filteredData) < Len(data)

\* C25: when the filter matches no row of a matrix that has rows, total is 0
\* and lastPage is 0, so that page 0 has no next page.
NoMatchMeansOnePage ==
    (data # NoData /\ Len(data) > 0 /\ filteredData = << >>)
    => /\ projection.total = 0
       /\ projection.lastPage = 0
       /\ currentPage = 0 => ~projection.hasNext

\* Math.ceil(n / d) - 1 for n >= 0, and 0 for n = 0
lastPageOf(n, d) == IF n = 0 THEN 0 ELSE (n + d - 1) \div d - 1

\* C26: lastPage is ceil(rowCount / rowsPerPage) - 1, and 0 without rows;
\* emptyRows is the number of padding rows of the displayed page; with five
\* rows per page and twelve rows, lastPage is 2 and emptyRows is 2 on page 2.
PagerArithmetic ==
    data # NoData
    => /\ projection.lastPage = lastPageOf(projection.total, perPage)
       /\ projection.emptyRows = perPage - displayedRows
       /\ (perPage = 5 /\ projection.total = 12 /\ currentPage = 2)
            => projection.lastPage = 2 /\ projection.emptyRows = 2

-----------------------------------------------------------------------------
(* Claims on row deletion, the notification timer and the pointer *)

\* C27: a delete that the user declines, and a delete on a read-only grid or
\* with an empty selection, changes nothing: matrix, selection, current cell,
\* focus, history and pointer stay, and no notification is scheduled.
DeclinedDeleteChangesNothing ==
    [][(\E confirmed \in BOOLEAN :
            /\ ~confirmed \/ readOnly \/ selection = << >>
            /\ OnDeleteRows(confirmed))
        => UNCHANGED << data, selection, currentCell, focus, undo, undoIndex,
                        timer, timeouts, notified >>]_vars

\* C27 witness: rows are selected on a writable grid that has a history and a
\* pending notification, so that a declined delete has something to keep.
DeleteWouldAsk ==
    /\ ~readOnly
    /\ data # NoData
    /\ selection # << >>
    /\ SelectionOk
    /\ focus
    /\ undoIndex > 0
    /\ timer # NoTimer

-----------------------------------------------------------------------------
(* The pointer events of a cell and of the document, and the unmounting of
   the component *)

\* Mouse-down on a displayed cell with another button than the primary one:
\* the document listener sets the focus, the cell's onMouseDown does nothing.
CellMouseDownOther ==
    /\ data # NoData
    /\ ~focus
    /\ Handler([Cur EXCEPT !.focus = TRUE])

\* onCellMouseOver
onCellMouseOver(location) ==
    [Cur EXCEPT !.selection = selectRange(clone(data), currentCell, location),
                !.data = clone(data)]

\* The onMouseOver of a displayed cell.
CellMouseOver(rowIndex, colIndex) ==
    /\ data # NoData
    /\ rowIndex < displayedRows
    /\ IF dragging /\ editCell = NoEdit
       THEN /\ currentCell # NoCell
            /\ CurrentCellOk
            /\ SelectionOk
            /\ InMatrix(data, rowIndex + currentPage * perPage, colIndex)
            /\ Handler(onCellMouseOver(Loc(rowIndex + currentPage * perPage, colIndex)))
       ELSE Handler(Cur)

\* handleMouseUpDocument for a mouse-up whose target is not a cell of this
\* grid: occurredByCell is what isOccurredByCell answers for the target (it
\* is inside some table cell, such as a cell of another table), tbody whether
\* tbodyRef.current is set.
DocumentMouseUp(occurredByCell, tbody) ==
    /\ dragging' = IF tbody /\ ~occurredByCell THEN FALSE ELSE dragging
    /\ Step
    /\ UNCHANGED << props, prevItems, data, currentPage, perPage, filter, sort,
                    currentCell, editCell, selection, focus, undo, undoIndex,
                    mode, timer, timeouts, mounted, notified >>

\* The component is unmounted: the effects' cleanups remove the document
\* listeners and unbind the hot keys.
Unmount ==
    /\ mounted
    /\ mounted' = FALSE
    /\ steps < MaxSteps
    /\ steps' = steps + 1
    /\ UNCHANGED << props, prevItems, data, currentPage, perPage, filter, sort,
                    currentCell, editCell, selection, focus, dragging, undo,
                    undoIndex, mode, timer, timeouts, notified >>

\* The events of a grid that is unmounted in the end.
NextLife ==
    \/ \E r \in 0..(perPage - 1), c \in 0..(columnLength - 1), sh \in BOOLEAN :
            CellMouseDown(r, c, sh)
    \/ CellMouseDownOther
    \/ \E r \in 0..(perPage - 1), c \in 0..(columnLength - 1) : CellMouseOver(r, c)
    \/ MouseUp
    \/ \E occurredByCell \in BOOLEAN, tbody \in BOOLEAN : DocumentMouseUp(occurredByCell, tbody)
    \/ AnyKeyDown("a")
    \/ \E c \in 0..(columnLength - 1), v \in { << >>, << "b" >> } :
            OnChangeCellValue(Loc(0, c), v)
    \/ OnInsertRow
    \/ TimerFire
    \/ Unmount

SpecLife == Init /\ [][NextLife]_vars

\* C28: the notification is debounced with one timer: a scheduling call
\* replaces the pending timeout, so at most one is pending, and changes made
\* without the timer firing in between lead to one onChange call, which
\* carries the matrix of the last of them.
DebounceKeepsOneTimer ==
    [][/\ Len(timeouts) <= 1
       /\ Len(timeouts') <= 1
       /\ (timer' # timer /\ timer' # NoTimer)
            => /\ timeouts' = << timer' >>
               /\ notified' = notified
       /\ TimerFire
            => /\ timer # NoTimer
               /\ notified' = timer
               /\ timeouts' = << >>
               /\ timer' = NoTimer]_vars

\* C28 witness: two changes have been committed and none notified; one timeout
\* is pending and carries the matrix of the second change.
TwoChangesOneTimer ==
    /\ ~disableUndo
    /\ undoIndex >= 2
    /\ notified = NoData
    /\ Len(timeouts) = 1
    /\ timeouts[1] = undo[undoIndex + 1]
    /\ timeouts[1] # undo[undoIndex]

\* C29: once the component is unmounted, no pending timeout fires: onChange
\* is not called after the teardown.
NoNotificationAfterUnmount ==
    [][TimerFire => mounted]_vars

\* C30: dragging becomes true only by a primary-button mouse-down on a cell;
\* it is false after any mouse-up, on a cell or elsewhere; while dragging is
\* false or a session is open, mouse-over on a cell leaves the selection.
DraggingEndsWithMouseUp ==
    [][/\ (dragging' /\ ~dragging)
            => \E r \in 0..(perPage - 1), c \in 0..(columnLength - 1), sh \in BOOLEAN :
                    CellMouseDown(r, c, sh)
       /\ (MouseUp \/ \E occurredByCell \in BOOLEAN, tbody \in BOOLEAN :
                            DocumentMouseUp(occurredByCell, tbody))
            => ~dragging'
       /\ ((~dragging \/ editCell # NoEdit)
            /\ \E r \in 0..(perPage - 1), c \in 0..(columnLength - 1) : CellMouseOver(r, c))
            => selection' = selection]_vars

-----------------------------------------------------------------------------
(* Range selection, select-all and selection of a row by a column value *)

\* currentPageRange: the rows of the current page, over every column.
currentPageRange ==
    [start |-> Loc(currentPage * perPage, 0),
     end |-> Loc(currentPage * perPage + perPage - 1, columnLength - 1)]

\* util.withinCell(range, cell): the cell lies inside the range.
withinCell(range, cell) ==
    /\ range.start.row <= cell.row /\ cell.row <= range.end.row
    /\ range.start.column <= cell.column /\ cell.column <= range.end.column

\* util.withinRange(outer, inner): the range inner lies inside the range outer.
withinRange(outer, inner) ==
    withinCell(outer, inner.start) /\ withinCell(outer, inner.end)

\* What a handler has after `if (editCell) commitEditing(cells)` on a clone of
\* the matrix.
committedClone ==
    IF editCell # NoEdit THEN commitEditing(clone(data), NoValue)
    ELSE [cells |-> clone(data), changed |-> FALSE, committed |-> FALSE,
          undo |-> undo, undoIndex |-> undoIndex]

\* The session, mode, history and scheduled notification commitEditing has
\* set, whether or not the handler stores the matrix afterwards.
afterCommit(c) ==
    [Cur EXCEPT !.editCell = NoEdit,
                !.mode = IF c.committed THEN "normal" ELSE mode,
                !.undo = c.undo,
                !.undoIndex = c.undoIndex,
                !.timer = IF c.changed THEN c.cells ELSE timer]

\* onSelect(range)
onSelect(range) ==
    IF ~withinRange(currentPageRange, range) THEN Cur
    ELSE LET selected(c) ==
                [afterCommit(c) EXCEPT
                    !.data = c.cells,
                    !.selection = selectRange(c.cells, range.start, range.end),
                    !.currentCell = IF currentCell # NoCell /\ withinCell(range, currentCell)
                                    THEN currentCell ELSE clone(range.start)]
         IN selected(committedClone)

\* The exposed onSelect.
OnSelect(range) ==
    /\ data # NoData
    /\ EditLocationOk
    /\ Handler(onSelect(range))

\* The exposed onSelectAll: the current page is selected.
OnSelectAll ==
    /\ data # NoData
    /\ EditLocationOk
    /\ Handler(onSelect(currentPageRange))

\* handleCtrlAKeyDown
HotkeyCtrlA ==
    /\ focus
    /\ editCell = NoEdit
    /\ data # NoData
    /\ Handler(onSelect(currentPageRange))

\* cells.findIndex((row) => row[columnIndex].value === value), zero-based; -1
\* when no row matches.
findRowIndex(cells, columnIndex, value) ==
    LET found == { r \in 1..Len(cells) : cells[r][columnIndex + 1].value = value }
    IN IF found = { } THEN -1 ELSE MinOf(found) - 1

\* selectByKeyValue(key, value): the state it leaves and the boolean it
\* returns.
selectByKeyValue(key, value) ==
    LET columnIndex == findColumn(key) - 1
        newCurrentCell(cells, rowIndex) ==
            Loc(rowIndex, IF At(cells, rowIndex, columnIndex).hidden
                          THEN columnHead ELSE columnIndex)
        selected(c, rowIndex) ==
            [state |-> IF columnIndex < 0 \/ rowIndex < 0
                       THEN afterCommit(c)
                       ELSE [afterCommit(c) EXCEPT
                                !.data = c.cells,
                                !.selection = << newCurrentCell(c.cells, rowIndex) >>,
                                !.currentCell = newCurrentCell(c.cells, rowIndex),
                                !.currentPage = rowIndex \div perPage],
             found |-> columnIndex >= 0 /\ rowIndex >= 0]
        search(c) == selected(c, IF columnIndex < 0 THEN -1
                                 ELSE findRowIndex(c.cells, columnIndex, value))
    IN search(committedClone)

\* selectByKeyValue throws when the session's location, or (for a row that is
\* found) the current cell or a selected location, is not in the matrix.
selectByKeyValueOk(key, value) ==
    /\ data # NoData
    /\ EditLocationOk
    /\ selectByKeyValue(key, value).found => (CurrentCellOk /\ SelectionOk)

\* The exposed selectByKeyValue.
SelectByKeyValue(key, value) ==
    /\ selectByKeyValueOk(key, value)
    /\ Handler(selectByKeyValue(key, value).state)

-----------------------------------------------------------------------------
(* A fourth grid: the first column is hidden and another hidden column lies
   between the visible ones; three rows on pages of two *)

ColumnsHidden ==
    << [name |-> "h", readOnly |-> FALSE, hidden |-> TRUE, required |-> FALSE,
        valueType |-> "text", cellType |-> "text", defaultValue |-> << >>],
       [name |-> "name", readOnly |-> FALSE, hidden |-> FALSE, required |-> FALSE,
        valueType |-> "text", cellType |-> "text", defaultValue |-> << "n" >>],
       [name |-> "y", readOnly |-> FALSE, hidden |-> TRUE, required |-> FALSE,
        valueType |-> "text", cellType |-> "text", defaultValue |-> << >>],
       [name |-> "x", readOnly |-> FALSE, hidden |-> FALSE, required |-> FALSE,
        valueType |-> "numeric", cellType |-> "numeric", defaultValue |-> << "0" >>] >>

HiddenItems == << GridItem(1, << "a" >>, << "1" >>, << "p" >>),
                  GridItem(2, << "b" >>, << "2" >>, << "q" >>),
                  GridItem(3, << "c" >>, << "3" >>, << "p" >>) >>

InitHidden == InitState(ColumnsHidden, HiddenItems, FALSE, FALSE, OptionsInsert, 2)

\* The events of the fourth grid.
NextHidden ==
    \/ \E r \in 0..(perPage - 1), c \in 0..(columnLength - 1), sh \in BOOLEAN :
            /\ ~columns[c + 1].hidden
            /\ CellMouseDown(r, c, sh)
    \/ \E k \in { "shift+left", "shift+right", "shift+up", "shift+down" } : HotkeyShiftArrow(k)
    \/ \E k \in ArrowKeys : HotkeyArrow(k)
    \/ \E k \in TabEnterKeys : HotkeyTabEnter(k)
    \/ \E newPage \in 0..1 : OnChangePage(newPage)
    \/ CellMouseDownOther
    \/ AnyKeyDown("z")
    \/ \E r1 \in 0..1, c1 \in 0..1, r2 \in 1..2, c2 \in { 1, 3 } :
            OnSelect([start |-> Loc(r1, c1), end |-> Loc(r2, c2)])
    \/ OnSelectAll
    \/ HotkeyCtrlA
    \/ \E key \in { "name", "h", "k" }, value \in { << "c" >>, << "h" >>, << "k" >> } :
            SelectByKeyValue(key, value)

SpecHidden == InitHidden /\ [][NextHidden]_vars

\* The first non-hidden column from column c on, stepping by delta; -1 or
\* the column count when there is none.
RECURSIVE visibleFrom(_, _)
visibleFrom(c, delta) ==
    IF c < 0 \/ c >= columnLength THEN c
    ELSE IF columns[c + 1].hidden THEN visibleFrom(c + delta, delta)
    ELSE c

\* An expansion to the left or right meets a hidden column with a non-hidden
\* one beyond it.
hiddenAhead(direction) ==
    LET edge == IF direction = "left" THEN convertRange.start.column
                ELSE convertRange.end.column
        delta == IF direction = "left" THEN -1 ELSE 1
    IN /\ edge + delta >= 0
       /\ edge + delta < columnLength
       /\ columns[edge + delta + 1].hidden
       /\ visibleFrom(edge + delta, delta) >= 0
       /\ visibleFrom(edge + delta, delta) < columnLength

\* The selection an expansion returns holds a cell of the next non-hidden
\* column in its direction.
reachesVisible(direction, expanded) ==
    LET edge == IF direction = "left" THEN convertRange.start.column
                ELSE convertRange.end.column
        delta == IF direction = "left" THEN -1 ELSE 1
    IN \E i \in 1..Len(expanded) :
            expanded[i].column = visibleFrom(edge + delta, delta)

\* C31: an expansion of the selection to the left or to the right that meets
\* a hidden column with a non-hidden column beyond it and succeeds returns a
\* selection holding cells of that next non-hidden column, and an expansion
\* that fails returns the selection it was given.
ExpansionSkipsHiddenColumns ==
    (selection # << >> /\ SelectionOk) =>
        \A direction \in { "left", "right", "up", "down" } :
            /\ (direction \in { "left", "right" } /\ hiddenAhead(direction)
                    /\ expandSelection(direction, data).ok)
                => reachesVisible(direction, expandSelection(direction, data).selection)
            /\ ~expandSelection(direction, data).ok
                => expandSelection(direction, data).selection = selection

\* Every row of the matrix cells has one cell per schema column, in schema
\* order.
rowsFollowSchema(cells) ==
    \A r \in 1..Len(cells) :
        /\ Len(cells[r]) = columnLength
        /\ \A k \in 1..columnLength : cells[r][k].entityName = columns[k].name

\* C32: in every reachable state the matrix is a defined sequence of rows, and
\* every row has exactly one cell per schema column, cell k carrying the name
\* of column k.
MatrixKeepsSchema ==
    /\ data # NoData
    /\ rowsFollowSchema(data)

\* A key of the navigation handlers pressed while the grid has the focus and no
\* current cell is defined.
navigationWithoutCurrentCell ==
    /\ focus
    /\ currentCell = NoCell
    /\ \/ \E k \in ArrowKeys : HotkeyArrow(k)
       \/ \E k \in TabEnterKeys : HotkeyTabEnter(k)

\* C35: arrow keys, Tab, Shift+Tab, Enter and Shift+Enter pressed while the
\* grid has the focus and no current cell is defined leave the matrix as it
\* was, and never store an undefined matrix.
NavigationWithoutCellKeepsMatrix ==
    [][navigationWithoutCurrentCell => (data' # NoData /\ data' = data)]_vars

\* The rowKey of the row displayed at position rowIndex of the page.
displayedRowKey(rowIndex) == filteredData[rowIndex + currentPage * perPage + 1][1].rowKey

\* C33: a click on a displayed cell makes the cell of the row displayed at the
\* clicked position the current cell (the row of the full matrix with the
\* same rowKey), whatever the filter, so that an edit goes to that row and to
\* no row the filter hides.
ClickSelectsDisplayedRow ==
    [][\A r \in 0..(perPage - 1) :
            (CellMouseDown(r, 0, FALSE) /\ currentCell' # currentCell)
                => At(data', currentCell'.row, 0).rowKey = displayedRowKey(r)]_vars

\* C34: in every reachable state the current cell (when defined), every
\* location of the selection and the location of the edit session (when one
\* is open) index an existing cell of the live matrix.
LocationsIndexCells ==
    /\ CurrentCellOk
    /\ SelectionOk
    /\ EditLocationOk

\* The session's cell is a select cell flagged as editing: its dropdown is open.
dropdownOpen ==
    /\ editCell # NoEdit
    /\ EditLocationOk
    /\ At(data, editCell.location.row, editCell.location.column).cellType = "select"
    /\ At(data, editCell.location.row, editCell.location.column).editing

\* Tab, Shift+Tab, Enter, Shift+Enter or an arrow key is handled, by the hot-key
\* handlers or by the editor's key handler.
navigationKeyHandled ==
    \/ \E k \in TabEnterKeys : HotkeyTabEnter(k)
    \/ \E k \in ArrowKeys : HotkeyArrow(k)
    \/ \E k \in { "Tab", "Enter", "ArrowRight" }, m \in { "", "shift" } : EditorKeyDown(k, m)

\* C36: while the dropdown of a select cell is open, handling Tab, Shift+Tab,
\* Enter, Shift+Enter or an arrow key moves no cursor, changes no selection
\* and leaves the matrix as it was.
OpenDropdownBlocksNavigation ==
    [][(dropdownOpen /\ navigationKeyHandled)
            => (currentCell' = currentCell /\ selection' = selection /\ data' = data)]_vars

\* The rowKey of the row the edit session of state-record s points at.
sessionRowKey(cells, session) ==
    At(cells, session.location.row, session.location.column).rowKey

\* No row of cells carries rowKey key.
rowGone(cells, key) ==
    cells # NoData /\ \A r \in 1..Len(cells) : cells[r][1].rowKey # key

\* C37: while an edit session stays open, whatever operation is performed (sort
\* click, insert row, delete rows, page or filter change), its location keeps
\* pointing at the row on which it was started (the row with the same rowKey),
\* so that the commit that follows writes to that row, or the row no longer
\* exists.
SessionFollowsItsRow ==
    [][(editCell # NoEdit /\ EditLocationOk /\ editCell' # NoEdit /\ data' # NoData)
            => \/ /\ EditLocationOk'
                  /\ editCell'.location.column = editCell.location.column
                  /\ sessionRowKey(data', editCell') = sessionRowKey(data, editCell)
               \/ rowGone(data', sessionRowKey(data, editCell))]_vars

\* C38: selectByKeyValue called while an edit session is open commits the
\* pending edit, whether the row is found or not: afterwards the live matrix
\* holds the session's value in the session's cell, no cell is flagged as being
\* edited, and the live matrix has the values of the history entry at the
\* pointer.
SelectByKeyValueCommitsFirst ==
    [][\A key \in { "name", "h", "k" }, value \in { << "c" >>, << "h" >>, << "k" >> } :
            (editCell # NoEdit /\ SelectByKeyValue(key, value))
                => /\ data' # NoData
                   /\ At(data', editCell.location.row, editCell.location.column).value
                        = editCell.value
                   /\ noCellEditing(data')
                   /\ Values(data') = Values(undo'[undoIndex' + 1])]_vars

\* C39: in every reachable state the current cell, when it is defined, is a
\* cell of a column that is not hidden.
CurrentCellIsVisible ==
    (currentCell # NoCell /\ CurrentCellOk)
        => ~At(data, currentCell.row, currentCell.column).hidden

\* C40: in every reachable state the displayed page is an existing page and
\* the number of padding rows lies between zero and the page size.
PageStaysInRange ==
    /\ 0 <= currentPage
    /\ currentPage <= last
    /\ 0 <= emptyRows
    /\ emptyRows <= perPage

====
